---- MODULE Spec2Model ----
(***************************************************************************)
(* DevSketch: the code-generation pipeline (src/lib/ai.ts, the generate    *)
(* API route, Canvas.generateCode) and the multi-tier persistence of a     *)
(* design (Canvas, CodeEditor, editor-store).                              *)
(*                                                                         *)
(* Text is modelled lexically.  A model reply is a sequence of tokens      *)
(* (markdown fence, "import ", "export ", ";", newline, blank, other       *)
(* text); a code text is a sequence of pieces <<token, lo, hi>>, the       *)
(* characters lo..hi-1 of one token, so that substring and concatenation   *)
(* are computed on character offsets as the code computes them.            *)
(***************************************************************************)
EXTENDS Integers, Sequences, FiniteSets, TLC

(***************************************************************************)
(* Bounds                                                                  *)
(***************************************************************************)
\* longest model reply, in tokens
MaxContentLen == 2
\* characters of the token "B", one long run of ordinary code text
BlockLen == 600

Null == "null"

(***************************************************************************)
(* Text                                                                    *)
(***************************************************************************)
Tok == {"fence", "import", "export", "semi", "nl", "sp", "x", "B"}

CharLen(t) ==
  CASE t = "fence"  -> 3
    [] t = "import" -> 7
    [] t = "export" -> 7
    [] t = "B"      -> BlockLen
    [] OTHER        -> 1

IsBlank(t) == t \in {"nl", "sp"}

\* s.trim() === ''
AllBlank(s) == \A i \in 1..Len(s) : IsBlank(s[i])

TextOf(s) == [i \in 1..Len(s) |-> <<s[i], 0, CharLen(s[i])>>]

EmptyText == <<>>

RECURSIVE TextLen(_)
TextLen(txt) ==
  IF txt = <<>> THEN 0 ELSE (Head(txt)[3] - Head(txt)[2]) + TextLen(Tail(txt))

Min(a, b) == IF a < b THEN a ELSE b

\* String.prototype.substring(a, b) for 0 <= a <= b
RECURSIVE Substring(_, _, _)
Substring(txt, a, b) ==
  IF txt = <<>> \/ b <= 0 THEN <<>>
  ELSE LET p == Head(txt)
           n == p[3] - p[2]
           lo == IF a > 0 THEN a ELSE 0
           hi == Min(b, n)
           rest == Substring(Tail(txt), a - n, b - n)
       IN IF lo < hi THEN <<<<p[1], p[2] + lo, p[2] + hi>>>> \o rest ELSE rest

\* a + b on strings: adjacent pieces of one token are one run of characters
RECURSIVE Normalize(_)
Normalize(txt) ==
  IF Len(txt) < 2 THEN txt
  ELSE LET p == txt[1]
           q == txt[2]
       IN IF p[1] = q[1] /\ p[3] = q[2] /\ p[3] < CharLen(p[1]) /\ q[2] > 0
          THEN Normalize(<<<<p[1], p[2], q[3]>>>> \o SubSeq(txt, 3, Len(txt)))
          ELSE <<p>> \o Normalize(Tail(txt))

Concat(t1, t2) == Normalize(t1 \o t2)

(***************************************************************************)
(* src/lib/ai.ts                                                           *)
(***************************************************************************)
RECURSIVE TrimLeft(_)
TrimLeft(s) == IF s # <<>> /\ IsBlank(Head(s)) THEN TrimLeft(Tail(s)) ELSE s

RECURSIVE TrimRight(_)
TrimRight(s) ==
  IF s # <<>> /\ IsBlank(s[Len(s)]) THEN TrimRight(SubSeq(s, 1, Len(s) - 1)) ELSE s

Trim(s) == TrimRight(TrimLeft(s))

IndexOf(s, t) ==
  IF \E i \in 1..Len(s) : s[i] = t
  THEN CHOOSE i \in 1..Len(s) : s[i] = t /\ \A j \in 1..(i - 1) : s[j] # t
  ELSE 0

LastIndexOf(s, t) ==
  IF \E i \in 1..Len(s) : s[i] = t
  THEN CHOOSE i \in 1..Len(s) : s[i] = t /\ \A j \in (i + 1)..Len(s) : s[j] # t
  ELSE 0

\* the tokens of the line that starts at position i: up to the next newline
LineEnd(s, i) ==
  IF \E j \in i..Len(s) : s[j] = "nl"
  THEN (CHOOSE j \in i..Len(s) : s[j] = "nl" /\ \A k \in i..(j - 1) : s[k] # "nl") - 1
  ELSE Len(s)

cleanCodeOutput(rawOutput) ==
  LET noFence == SelectSeq(rawOutput, LAMBDA t : t # "fence")
      fi == IndexOf(noFence, "import")
      fromImport == IF fi > 1 THEN SubSeq(noFence, fi, Len(noFence)) ELSE noFence
      li == LastIndexOf(fromImport, "export")
      le == LineEnd(fromImport, li)
      toExport == IF li > 0 /\ (\E k \in li..le : fromImport[k] = "semi")
                  THEN SubSeq(fromImport, 1, le)
                  ELSE fromImport
  IN Trim(toExport)

AiToken == "ai-uuid"

EmptySketchError == "Error: Empty sketch data. Please add elements to your drawing before generating code."
RateLimitError == "Rate limit exceeded. Please try again in a minute."
FallbackEmptyError == "Failed to generate code. Please try again with a simpler sketch."
AllFailedError == "Failed to generate code after multiple attempts. Returning a basic template."

basicTemplate == <<"x", "nl", "import", "x", "semi", "nl", "export", "x">>

Throw == <<"throw">>

\* sketchToCode with the rate limiter consulted before the sketch is validated
sketchToCodeLimiterFirst(sketchLen, hasTokens, r1, r2) ==
  IF ~hasTokens
  THEN [code |-> EmptyText, error |-> RateLimitError, designToken |-> AiToken,
        limiterUsed |-> TRUE, modelCalls |-> 0]
  ELSE IF sketchLen = 0
  THEN [code |-> EmptyText, error |-> EmptySketchError, designToken |-> AiToken,
        limiterUsed |-> TRUE, modelCalls |-> 0]
  ELSE IF r1 # Throw /\ ~AllBlank(r1)
  THEN [code |-> TextOf(cleanCodeOutput(r1)), error |-> Null, designToken |-> AiToken,
        limiterUsed |-> TRUE, modelCalls |-> 1]
  ELSE IF r2 = Throw
  THEN [code |-> TextOf(basicTemplate), error |-> AllFailedError, designToken |-> AiToken,
        limiterUsed |-> TRUE, modelCalls |-> 2]
  ELSE IF AllBlank(r2)
  THEN [code |-> EmptyText, error |-> FallbackEmptyError, designToken |-> AiToken,
        limiterUsed |-> TRUE, modelCalls |-> 2]
  ELSE [code |-> TextOf(cleanCodeOutput(r2)), error |-> Null, designToken |-> AiToken,
        limiterUsed |-> TRUE, modelCalls |-> 2]

\* r1, r2: what the two chat-completion calls do: Throw, or the reply's tokens
sketchToCode(sketchLen, hasTokens, r1, r2) ==
  IF sketchLen = 0
  THEN [code |-> EmptyText, error |-> EmptySketchError, designToken |-> AiToken,
        limiterUsed |-> FALSE, modelCalls |-> 0]
  ELSE IF ~hasTokens
  THEN [code |-> EmptyText, error |-> RateLimitError, designToken |-> AiToken,
        limiterUsed |-> TRUE, modelCalls |-> 0]
  ELSE IF r1 # Throw /\ ~AllBlank(r1)
  THEN [code |-> TextOf(cleanCodeOutput(r1)), error |-> Null, designToken |-> AiToken,
        limiterUsed |-> TRUE, modelCalls |-> 1]
  ELSE IF r2 = Throw
  THEN [code |-> TextOf(basicTemplate), error |-> AllFailedError, designToken |-> AiToken,
        limiterUsed |-> TRUE, modelCalls |-> 2]
  ELSE IF AllBlank(r2)
  THEN [code |-> EmptyText, error |-> FallbackEmptyError, designToken |-> AiToken,
        limiterUsed |-> TRUE, modelCalls |-> 2]
  ELSE [code |-> TextOf(cleanCodeOutput(r2)), error |-> Null, designToken |-> AiToken,
        limiterUsed |-> TRUE, modelCalls |-> 2]

(***************************************************************************)
(* Identifiers                                                             *)
(***************************************************************************)
\* attempts of generateCode followed in one behaviour
MaxAttempts == 2

RemoteIds == {"d1", "d2"}
\* session ids generateUUID can return, numbered in the order of their creation
MaxSessions == 5
SessionIds == 1..MaxSessions
\* `local-${sessionId}`
LocalId(s) ==
  CASE s = 1 -> "local-s1"
    [] s = 2 -> "local-s2"
    [] s = 3 -> "local-s3"
    [] s = 4 -> "local-s4"
    [] OTHER -> "local-s5"
LocalIds == {LocalId(s) : s \in SessionIds}
\* designId.startsWith('local-')
IsLocal(id) == id \in LocalIds
GenId == "gen-id"
ErrorToken == "err-token"
AllIds == RemoteIds \cup LocalIds \cup {GenId, AiToken, ErrorToken}

\* absent values of each type (null, undefined, no entry in localStorage)
NullText == << <<"null", 0, 0>> >>
NullElems == << -1 >>

\* code || ''
OrEmpty(c) == IF c = NullText THEN EmptyText ELSE c
Truthy(c) == c # NullText /\ c # EmptyText

(***************************************************************************)
(* The generate API route: POST                                            *)
(***************************************************************************)
\* code.length > 1000 is streamed in chunks of 500
ChunkThreshold == 1000
chunkSize == 500

ServerTimeoutError == "Generation timed out. Please try again with a simpler sketch or try the non-streaming option."
NoCodeError == "No code was generated. The sketch may not contain recognizable UI elements."

Msg(m, tok, c, last, idx, total, err) ==
  [message |-> m, designToken |-> tok, code |-> c, isLast |-> last,
   chunkIndex |-> idx, totalChunks |-> total, error |-> err]

StartMsg == Msg("start", Null, NullText, FALSE, 0, 0, Null)
TokenMsg(t) == Msg("token", t, NullText, FALSE, 0, 0, Null)
ErrorMsg(e) == Msg("error", Null, NullText, FALSE, 0, 0, e)
SuccessMsg == Msg("success", Null, NullText, FALSE, 0, 0, Null)
CodeMsg(c, last, idx, total) == Msg("code", Null, c, last, idx, total, Null)

\* Math.ceil(a / b)
CeilDiv(a, b) == (a + b - 1) \div b

\* the fragments numbered from 1
codeChunksOneBased(code) ==
  LET n == TextLen(code)
      chunks == CeilDiv(n, chunkSize)
  IN IF n > ChunkThreshold
     THEN [k \in 1..chunks |->
             CodeMsg(Substring(code, (k - 1) * chunkSize, Min(k * chunkSize, n)),
                     k = chunks, k, chunks)]
     ELSE <<CodeMsg(code, TRUE, 1, 1)>>

codeChunks(code) ==
  LET n == TextLen(code)
      chunks == CeilDiv(n, chunkSize)
  IN IF n > ChunkThreshold
     THEN [k \in 1..chunks |->
             CodeMsg(Substring(code, (k - 1) * chunkSize, Min(k * chunkSize, n)),
                     k - 1 = chunks - 1, k - 1, chunks)]
     ELSE <<CodeMsg(code, TRUE, 0, 1)>>

\* the streaming branch writing an error without the token message before it
resultMessagesBareError(result) ==
  LET tok == IF result.designToken # Null THEN <<TokenMsg(result.designToken)>> ELSE <<>>
  IN IF result.error # Null
     THEN <<ErrorMsg(result.error)>>
     ELSE IF result.code = EmptyText
     THEN <<ErrorMsg(NoCodeError)>>
     ELSE tok \o codeChunks(result.code) \o <<SuccessMsg>>

\* what the streaming branch writes once sketchToCode has returned
resultMessages(result) ==
  LET tok == IF result.designToken # Null THEN <<TokenMsg(result.designToken)>> ELSE <<>>
  IN IF result.error # Null
     THEN tok \o <<ErrorMsg(result.error)>>
     ELSE IF result.code = EmptyText
     THEN tok \o <<ErrorMsg(NoCodeError)>>
     ELSE tok \o codeChunks(result.code) \o <<SuccessMsg>>

NoResponse == [status |-> 0, code |-> NullText, designToken |-> Null, error |-> Null]

\* the single JSON response of the non-streaming branch
jsonResponse(result, requestDesignId) ==
  [status |-> 200,
   code |-> OrEmpty(result.code),
   designToken |-> IF result.designToken # Null THEN result.designToken
                   ELSE IF requestDesignId # Null THEN requestDesignId ELSE ErrorToken,
   error |-> result.error]

jsonFailure ==
  [status |-> 500, code |-> EmptyText, designToken |-> ErrorToken,
   error |-> "Error generating code: AI function timed out"]

(***************************************************************************)
(* State                                                                   *)
(***************************************************************************)
VARIABLES
  \* Canvas component state (useState / useRef)
  elements, userId, designId, sessionId, supabaseError, toast,
  isGenerating, generationError,
  \* the Excalidraw scene read through excalidrawRef.getSceneElements()
  scene,
  \* zustand editor store
  storeElements, storeCode, storeDesignId, storeUserId,
  \* window.localStorage
  ls,
  \* one generateCode invocation: position, stream-reading locals, timers;
  \* sawLast records that a code message with isLast was processed
  gpc, gcode, codeComplete, sawLast, attempt, timers45, fetches,
  \* history: the 45 second timer armed by the current attempt has fired
  timedOut,
  \* the generate route handling this client's request, and its output;
  \* streamed is everything the route has written to the current stream
  srvPc, srvMode, srvReq, wire, wireClosed, streamed, jsonResp,
  \* a direct call of sketchToCode: its argument and result
  aiCall,
  \* the designs table, and whether every request to it fails
  db, remoteDown,
  \* Canvas: the isSaving ref, the pending auto-save timer, the insert of
  \* createNewSession in flight
  isSaving, saveTimer, newSession,
  \* CodeEditor component state, its isSaving ref and auto-save timer
  ceCode, ceDesignId, ceUserId, ceIsSaving, codeTimer,
  \* the code handed to the updateDesignCode call CodeEditor is awaiting
  saveCall,
  \* calls of the store's updateSupabaseCode waiting for the remote answer
  uscCalls,
  \* the postgres_changes event of a code update of this client, on its way
  \* to the client's own subscription
  echo,
  \* history: the code carried by the UPDATE event the last step delivered
  payloadCode,
  \* history: the last drawing handed to onChangeHandler
  lastEdit,
  \* the page: the id parameter of the URL, what supabase.auth answers, the
  \* session_id column of the designs table, whether localStorage throws,
  \* whether an exception left an effect uncaught, the error state of
  \* CodeEditor, and the effects and requests of the page still to run
  url, auth, dbSession, lsBroken, uncaught, ceError, pending,
  \* history: the design id the last navigation left
  navFrom,
  \* the design ids whose select of loadDesignFromUrl has not been answered yet
  urlLoads,
  \* the drawing with its geometry as generateCode pre-processes it, and the
  \* processed copy sent to the route
  drawn, processedElements,
  \* the results of Math.random() used by one call of generateUUID, in
  \* sixteenths, and the string the call returned
  randoms, uuid,
  \* the handler that ran last
  lastOp

canvasVars == <<elements, userId, designId, sessionId, supabaseError, toast>>
storeVars == <<storeElements, storeCode, storeDesignId, storeUserId>>
genVars == <<isGenerating, generationError, scene, gpc, gcode, codeComplete, sawLast,
             attempt, timers45, timedOut, fetches>>
srvVars == <<srvPc, srvMode, srvReq, wire, wireClosed, streamed, jsonResp, aiCall>>
\* genVars without the scene
genState == <<isGenerating, generationError, gpc, gcode, codeComplete, sawLast,
               attempt, timers45, timedOut, fetches>>
ceVars == <<ceDesignId, ceUserId, ceIsSaving, saveCall>>
syncVars == <<db, remoteDown, isSaving, saveTimer, newSession, ceCode, ceVars, codeTimer,
              uscCalls, echo, payloadCode, lastEdit>>
loadVars == <<url, auth, dbSession, lsBroken, uncaught, ceError, pending, navFrom,
             urlLoads>>
pureVars == <<drawn, processedElements, randoms, uuid>>
vars == <<canvasVars, storeVars, genVars, srvVars, syncVars, loadVars, pureVars, ls, lastOp>>

EmptyStorage ==
  [backup |-> NullElems, session |-> 0, lastCode |-> NullText,
   code |-> [id \in AllIds |-> NullText],
   token |-> Null, devLast |-> NullText, final |-> [id \in AllIds |-> NullText]]

\* setCode writing the most-recent-code key only when no design id is set
setCodeStorageOneKey(lsv, sid, c) ==
  LET safeCode == OrEmpty(c)
  IN IF sid # Null THEN [lsv EXCEPT !.code[sid] = safeCode]
     ELSE [lsv EXCEPT !.lastCode = safeCode]

\* editor-store setCode: the localStorage writes
setCodeStorage(lsv, sid, c) ==
  LET safeCode == OrEmpty(c)
      withDesign == IF sid # Null THEN [lsv EXCEPT !.code[sid] = safeCode] ELSE lsv
  IN [withDesign EXCEPT !.lastCode = safeCode]

(***************************************************************************)
(* Canvas.generateCode                                                     *)
(***************************************************************************)
\* sketchElements.length > 30 tries the non-streaming request first
ComplexThreshold == 30

\* a test that takes a sketch of exactly 30 elements for a complex one
useNonStreamingInclusive(n) == n >= ComplexThreshold

\* useNonStreaming, for a sketch of n elements
useNonStreaming(n) == n > ComplexThreshold

SuccessToast == "Code generated successfully!"
NoElementsToast == "No elements to generate code from. Draw something first!"
ClientTimeoutError == "Generation timed out. Please try again with a simpler drawing or fewer elements."
StreamFailedError == "Generation Error: Failed to read streaming response"

Shapes(n) == [i \in 1..n |-> 1]

sketchElements == IF Len(scene) > 0 THEN scene ELSE elements

NoRequest == [designId |-> Null, sketchLen |-> 0]

RequestId == IF designId # Null THEN designId ELSE GenId

NoCall == [sketchLen |-> -1,
           result |-> [code |-> NullText, error |-> Null, designToken |-> Null,
                       limiterUsed |-> FALSE, modelCalls |-> 0]]

\* fetch(`${host}/api/generate`): the route validates the body, and in
\* streaming mode answers at once and writes start and the request's id
SendRequest(mode, sent, reqId) ==
  /\ srvPc' = "ai"
  /\ srvMode' = mode
  /\ jsonResp' = NoResponse
  /\ wireClosed' = FALSE
  /\ wire' = IF mode = "stream"
             THEN <<StartMsg>> \o (IF reqId # Null THEN <<TokenMsg(reqId)>> ELSE <<>>)
             ELSE <<>>
  /\ streamed' = wire'
  /\ fetches' = Append(sent, mode)
  \* the route calls sketchToCode, which has not returned yet
  /\ aiCall' = NoCall

generateCode ==
  /\ ~isGenerating
  /\ gpc = "idle"
  /\ attempt < MaxAttempts
  /\ lastOp' = "generateCode"
  /\ UNCHANGED <<syncVars, loadVars, pureVars>>
  /\ IF Len(sketchElements) = 0
     THEN /\ toast' = NoElementsToast
          /\ UNCHANGED <<isGenerating, generationError, gpc, gcode, codeComplete, sawLast,
                         attempt, timedOut, timers45, fetches, srvVars>>
     ELSE /\ isGenerating' = TRUE
          /\ generationError' = Null
          /\ toast' = "Generating code..."
          /\ attempt' = attempt + 1
          /\ timers45' = timers45 \cup {attempt + 1}
          /\ timedOut' = FALSE
          /\ gcode' = EmptyText
          /\ codeComplete' = FALSE
          /\ sawLast' = FALSE
          /\ srvReq' = [designId |-> RequestId, sketchLen |-> Len(sketchElements)]
          /\ IF useNonStreaming(Len(sketchElements))
             THEN gpc' = "ns" /\ SendRequest("json", <<>>, RequestId)
             ELSE gpc' = "st" /\ SendRequest("stream", <<>>, RequestId)
  /\ UNCHANGED <<elements, userId, designId, sessionId, supabaseError, scene, storeVars, ls>>

\* the catch block of the streaming attempt
FailGeneration(msg) ==
  /\ generationError' = msg
  /\ isGenerating' = FALSE
  /\ toast' = msg
  /\ gpc' = "idle"

\* the non-streaming response arrives
nonStreamingResponse ==
  /\ gpc = "ns"
  /\ jsonResp.status # 0
  /\ lastOp' = "nonStreamingResponse"
  /\ UNCHANGED <<syncVars, loadVars, pureVars>>
  /\ IF jsonResp.status = 200
     THEN /\ timers45' = timers45 \ {attempt}
          /\ IF jsonResp.error # Null
             THEN /\ gpc' = "st"
                  /\ SendRequest("stream", fetches, srvReq.designId)
                  /\ UNCHANGED <<designId, storeDesignId, storeCode, ls, isGenerating, toast>>
             ELSE /\ designId' = IF jsonResp.designToken # Null THEN jsonResp.designToken ELSE designId
                  /\ storeDesignId' = IF jsonResp.designToken # Null THEN jsonResp.designToken
                                      ELSE storeDesignId
                  /\ IF Truthy(jsonResp.code)
                     THEN /\ storeCode' = jsonResp.code
                          /\ ls' = setCodeStorage(ls, storeDesignId', jsonResp.code)
                          /\ isGenerating' = FALSE
                          /\ toast' = SuccessToast
                          /\ gpc' = "idle"
                          /\ UNCHANGED <<srvPc, srvMode, jsonResp, wire, wireClosed, streamed,
                                         fetches, aiCall>>
                     ELSE /\ gpc' = "st"
                          /\ SendRequest("stream", fetches, srvReq.designId)
                          /\ UNCHANGED <<storeCode, ls, isGenerating, toast>>
     ELSE /\ gpc' = "st"
          /\ SendRequest("stream", fetches, srvReq.designId)
          /\ UNCHANGED <<timers45, designId, storeDesignId, storeCode, ls, isGenerating, toast>>
  /\ UNCHANGED <<elements, userId, sessionId, supabaseError, scene, storeElements, storeUserId,
                 generationError, gcode, codeComplete, sawLast, attempt, timedOut, srvReq>>

\* the non-streaming fetch rejects: caught, the streaming request follows
nonStreamingFetchFails ==
  /\ gpc = "ns"
  /\ lastOp' = "nonStreamingFetchFails"
  /\ UNCHANGED <<syncVars, loadVars, pureVars>>
  /\ gpc' = "st"
  /\ SendRequest("stream", fetches, srvReq.designId)
  /\ UNCHANGED <<canvasVars, storeVars, ls, isGenerating, generationError, scene, gcode,
                 codeComplete, sawLast, attempt, timedOut, timers45, srvReq>>

\* the streaming fetch resolves with the response headers
streamingResponse ==
  /\ gpc = "st"
  /\ lastOp' = "streamingResponse"
  /\ UNCHANGED <<syncVars, loadVars, pureVars>>
  /\ timers45' = timers45 \ {attempt}
  /\ gpc' = "reading"
  /\ gcode' = EmptyText
  /\ codeComplete' = FALSE
  /\ sawLast' = FALSE
  /\ UNCHANGED <<canvasVars, storeVars, ls, isGenerating, generationError, scene, attempt, timedOut,
                 fetches, srvVars>>

\* the streaming fetch resolves with a status that is not ok (a gateway 504)
streamingHttpError ==
  /\ gpc = "st"
  /\ lastOp' = "streamingHttpError"
  /\ UNCHANGED <<syncVars, loadVars, pureVars>>
  /\ timers45' = timers45 \ {attempt}
  /\ FailGeneration(
       "Server timeout error. The drawing may be too complex to generate code in the available time.")
  /\ UNCHANGED <<elements, userId, designId, sessionId, supabaseError, storeVars, ls, scene,
                 gcode, codeComplete, sawLast, attempt, timedOut, fetches, srvVars>>

\* the streaming fetch rejects: the timer armed by this attempt is not cleared
streamingFetchFails ==
  /\ gpc = "st"
  /\ lastOp' = "streamingFetchFails"
  /\ UNCHANGED <<syncVars, loadVars, pureVars>>
  /\ FailGeneration("Generation Error: Failed to fetch")
  /\ UNCHANGED <<elements, userId, designId, sessionId, supabaseError, storeVars, ls, scene,
                 gcode, codeComplete, sawLast, attempt, timedOut, timers45, fetches, srvVars>>

\* the body of `for (const line of lines)` for one parsed line
processLine(st, data) ==
  IF data.message = "error"
  THEN \* the Error thrown here is caught by the JSON.parse catch of the same line
       st
  ELSE IF data.message = "token" /\ data.designToken # Null
  THEN [st EXCEPT !.designId = data.designToken, !.storeDesignId = data.designToken]
  ELSE IF Truthy(data.code)
  THEN LET code == Concat(st.code, data.code)
           complete == st.codeComplete \/ data.isLast
       IN [st EXCEPT !.code = code,
                     !.codeComplete = complete,
                     !.sawLast = st.sawLast \/ data.isLast,
                     !.storeCode = code,
                     !.ls = setCodeStorage(st.ls, st.storeDesignId, code),
                     !.isGenerating = IF complete THEN FALSE ELSE st.isGenerating,
                     !.toast = IF complete THEN SuccessToast ELSE "Receiving code..."]
  ELSE IF data.message = "success"
  THEN [st EXCEPT !.codeComplete = TRUE,
                  !.isGenerating = IF TextLen(st.code) > 0 THEN FALSE ELSE st.isGenerating,
                  !.toast = IF TextLen(st.code) > 0 THEN SuccessToast ELSE st.toast]
  ELSE st

RECURSIVE processLines(_, _)
processLines(st, lines) ==
  IF lines = <<>> THEN st ELSE processLines(processLine(st, Head(lines)), Tail(lines))

ReaderState ==
  [code |-> gcode, codeComplete |-> codeComplete, sawLast |-> sawLast, designId |-> designId,
   storeDesignId |-> storeDesignId, storeCode |-> storeCode, ls |-> ls,
   isGenerating |-> isGenerating, toast |-> toast]

SetReaderState(st) ==
  /\ gcode' = st.code
  /\ codeComplete' = st.codeComplete
  /\ sawLast' = st.sawLast
  /\ designId' = st.designId
  /\ storeDesignId' = st.storeDesignId
  /\ storeCode' = st.storeCode
  /\ ls' = st.ls
  /\ isGenerating' = st.isGenerating
  /\ toast' = st.toast

\* reader.read() returns a chunk that holds the next k whole lines
readChunk ==
  /\ gpc = "reading"
  /\ \E k \in 1..Len(wire) :
       /\ SetReaderState(processLines(ReaderState, SubSeq(wire, 1, k)))
       /\ wire' = SubSeq(wire, k + 1, Len(wire))
  /\ lastOp' = "readChunk"
  /\ UNCHANGED <<syncVars, loadVars, pureVars>>
  /\ UNCHANGED <<elements, userId, sessionId, supabaseError, storeElements, storeUserId,
                 generationError, scene, gpc, attempt, timedOut, timers45, fetches,
                 srvPc, srvMode, srvReq, wireClosed, streamed, jsonResp, aiCall>>

\* the bytes of the next line arrive in two reads: each read is split and
\* parsed on its own, neither part is JSON, both are logged and dropped
readSplitLine ==
  /\ gpc = "reading"
  /\ wire # <<>>
  /\ wire' = Tail(wire)
  /\ lastOp' = "readSplitLine"
  /\ UNCHANGED <<syncVars, loadVars, pureVars>>
  /\ UNCHANGED <<canvasVars, storeVars, ls, genVars,
                 srvPc, srvMode, srvReq, wireClosed, streamed, jsonResp, aiCall>>

\* reader.read() returns done
readDone ==
  /\ gpc = "reading"
  /\ wire = <<>>
  /\ wireClosed
  /\ lastOp' = "readDone"
  /\ UNCHANGED <<syncVars, loadVars, pureVars>>
  /\ IF codeComplete
     THEN gpc' = "idle" /\ UNCHANGED <<generationError, isGenerating, toast>>
     ELSE FailGeneration(StreamFailedError)
  /\ UNCHANGED <<elements, userId, designId, sessionId, supabaseError, storeVars, ls, scene,
                 gcode, codeComplete, sawLast, attempt, timedOut, timers45, fetches, srvVars>>

\* reader.read() rejects
readFails ==
  /\ gpc = "reading"
  /\ lastOp' = "readFails"
  /\ UNCHANGED <<syncVars, loadVars, pureVars>>
  /\ FailGeneration(StreamFailedError)
  /\ UNCHANGED <<elements, userId, designId, sessionId, supabaseError, storeVars, ls, scene,
                 gcode, codeComplete, sawLast, attempt, timedOut, timers45, fetches, srvVars>>

\* the 45 second timer armed by attempt a fires
generationTimeout ==
  /\ \E a \in timers45 :
       /\ timers45' = timers45 \ {a}
       /\ timedOut' = (timedOut \/ a = attempt)
  /\ lastOp' = "generationTimeout"
  /\ UNCHANGED <<syncVars, loadVars, pureVars>>
  /\ isGenerating' = FALSE
  /\ generationError' = ClientTimeoutError
  /\ toast' = "Generation timed out. Try a simpler drawing."
  /\ UNCHANGED <<elements, userId, designId, sessionId, supabaseError, storeVars, ls, scene,
                 gpc, gcode, codeComplete, sawLast, attempt, fetches, srvVars>>

(***************************************************************************)
(* The route and the model calls behind it                                 *)
(***************************************************************************)
RECURSIVE SeqsUpTo(_)
SeqsUpTo(n) ==
  IF n = 0 THEN {<<>>}
  ELSE LET shorter == SeqsUpTo(n - 1)
       IN shorter \cup {Append(q, t) : q \in shorter, t \in Tok}

\* what a chat-completion call can do: throw, or reply with any content
ModelReplies == {Throw} \cup SeqsUpTo(MaxContentLen)

\* the replies followed through the client: the call throws, replies nothing,
\* only a markdown fence, a short text, or a text longer than ChunkThreshold

\* the second model is called only if the first one throws or replies blank
FallbackReplies(R, r1) == IF r1 = Throw \/ AllBlank(r1) THEN R ELSE {Throw}

\* every result sketchToCode can return for a sketch of n elements
Results(R, n) ==
  UNION {{sketchToCode(n, hasTokens, r1, r2) : r2 \in FallbackReplies(R, r1)} :
           hasTokens \in BOOLEAN, r1 \in R}

PipelineResults == Results({Throw, <<>>, <<"fence">>, <<"x">>, <<"B", "B">>}, 1)
AllResults == Results(ModelReplies, 1)
AllResultsEmpty == Results(ModelReplies, 0)

\* sketchToCode returns to the route before the route's 25 second timer
routeResult(result) ==
  /\ srvPc = "ai"
  /\ aiCall' = [sketchLen |-> srvReq.sketchLen, result |-> result]
  /\ IF srvMode = "json"
     THEN /\ jsonResp' = jsonResponse(result, srvReq.designId)
          /\ UNCHANGED <<wire, wireClosed, streamed>>
     ELSE /\ wire' = wire \o resultMessages(result)
          /\ streamed' = streamed \o resultMessages(result)
          /\ wireClosed' = TRUE
          /\ UNCHANGED jsonResp
  /\ srvPc' = "idle"
  /\ UNCHANGED <<canvasVars, storeVars, ls, genVars, srvMode, srvReq>>

aiReturns ==
  /\ \E result \in PipelineResults : routeResult(result)
  /\ lastOp' = "aiReturns"
  /\ UNCHANGED <<syncVars, loadVars, pureVars>>

\* the route's 25 second timer wins; a later result of sketchToCode is dropped
routeTimeout ==
  /\ srvPc = "ai"
  /\ IF srvMode = "json"
     THEN /\ jsonResp' = jsonFailure
          /\ UNCHANGED <<wire, wireClosed, streamed>>
     ELSE /\ wire' = Append(wire, ErrorMsg(ServerTimeoutError))
          /\ streamed' = Append(streamed, ErrorMsg(ServerTimeoutError))
          /\ wireClosed' = TRUE
          /\ UNCHANGED jsonResp
  /\ srvPc' = "idle"
  /\ lastOp' = "routeTimeout"
  /\ UNCHANGED <<syncVars, loadVars, pureVars>>
  /\ UNCHANGED <<canvasVars, storeVars, ls, genVars, srvMode, srvReq, aiCall>>

\* a client other than Canvas posts a sketch of one element without a
\* designId and asks for the stream: the route answers at once and writes
\* start; nobody on this page reads that stream
postWithoutDesignId ==
  /\ gpc = "idle"
  /\ srvPc = "idle"
  /\ attempt = 0
  /\ srvPc' = "ai"
  /\ srvMode' = "stream"
  /\ srvReq' = [designId |-> Null, sketchLen |-> 1]
  /\ jsonResp' = NoResponse
  /\ wireClosed' = FALSE
  /\ wire' = <<StartMsg>>
  /\ streamed' = wire'
  /\ aiCall' = NoCall
  /\ lastOp' = "postWithoutDesignId"
  /\ UNCHANGED <<syncVars, loadVars, pureVars>>
  /\ UNCHANGED <<canvasVars, storeVars, ls, genVars>>

\* sketchToCode called directly, with an empty or a non-empty sketch
callSketchToCode ==
  /\ gpc = "idle"
  /\ srvPc = "idle"
  /\ attempt = 0
  /\ \E n \in {0, 1} :
     \E result \in (IF n = 0 THEN AllResultsEmpty ELSE AllResults) :
       aiCall' = [sketchLen |-> n, result |-> result]
  /\ lastOp' = "sketchToCode"
  /\ UNCHANGED <<syncVars, loadVars, pureVars>>
  /\ UNCHANGED <<canvasVars, storeVars, ls, genVars, srvPc, srvMode, srvReq, wire,
                 wireClosed, streamed, jsonResp>>

(***************************************************************************)
(* Persistence: Canvas, CodeEditor and the editor store                    *)
(*                                                                         *)
(* The notices these handlers show (setToast) expire after three seconds   *)
(* and are not followed here.                                              *)
(***************************************************************************)
\* calls of updateSupabaseCode waiting for the remote answer at one time
MaxInFlight == 1

\* texts the user can type, and the code another client has written
EditorTexts == {TextOf(<<"x">>), TextOf(<<"x", "x">>)}
RemoteText == TextOf(<<"semi">>)

NoRow == [exists |-> FALSE, data |-> NullElems, code |-> NullText]
NewRow == [exists |-> TRUE, data |-> Shapes(0), code |-> NullText]

\* Canvas.saveToLocalStorage
saveToLocalStorage(lsv, els) == [lsv EXCEPT !.backup = els, !.session = sessionId]

\* the auto-save effect of Canvas runs again when elements or one of its
\* other dependencies changes: the old timer is cleared, and a new one is
\* set unless the drawing is empty
autoSaveEffect(els) == Len(els) > 0

\* updateSupabaseCode up to its first await: the localStorage writes
uscStorage(lsv, c) == setCodeStorage(lsv, storeDesignId, c)

\* updateSupabaseCode up to its first await: the store write and, with both
\* ids known, the first remote update
updateSupabaseCode(c) ==
  /\ storeCode' = OrEmpty(c)
  /\ IF storeDesignId # Null /\ storeUserId # Null
     THEN uscCalls' = uscCalls \cup {[id |-> storeDesignId, code |-> c, try |-> 1]}
     ELSE UNCHANGED uscCalls

\* the first or second remote update of a call succeeds
updateSucceeds ==
  /\ ~remoteDown
  /\ \E c \in uscCalls :
       /\ c.id \in RemoteIds
       /\ uscCalls' = uscCalls \ {c}
       /\ db' = IF db[c.id].exists THEN [db EXCEPT ![c.id].code = c.code] ELSE db
       \* the table publishes the UPDATE to the subscribers of the row
       /\ echo' = (echo \/ (db[c.id].exists /\ userId # Null /\ designId = c.id))
  /\ lastOp' = "updateSucceeds"
  /\ UNCHANGED <<loadVars, pureVars>>
  /\ payloadCode' = NullText
  /\ UNCHANGED <<canvasVars, storeVars, genVars, srvVars, ls, remoteDown, isSaving,
                 saveTimer, newSession, ceCode, ceVars, codeTimer, lastEdit>>

\* a remote update of a call fails: after the first the second is sent,
\* after the second the helper of client.ts reports success and the call ends
updateFails ==
  /\ \E c \in uscCalls :
       uscCalls' = IF c.try = 1
                   THEN (uscCalls \ {c}) \cup {[c EXCEPT !.try = 2]}
                   ELSE uscCalls \ {c}
  /\ lastOp' = "updateFails"
  /\ UNCHANGED <<loadVars, pureVars, echo>>
  /\ payloadCode' = NullText
  /\ UNCHANGED <<canvasVars, storeVars, genVars, srvVars, ls, db, remoteDown, isSaving,
                 saveTimer, newSession, ceCode, ceVars, codeTimer, lastEdit>>

\* CodeEditor.handleEditorChange, with DrawPage's onChange = updateSupabaseCode
handleEditorChange ==
  /\ Cardinality(uscCalls) < MaxInFlight
  /\ \E value \in EditorTexts \ {ceCode} :
       /\ ceCode' = value
       /\ updateSupabaseCode(value)
       /\ ls' = LET a == uscStorage(ls, value)
                    b == IF ceDesignId # Null THEN [a EXCEPT !.code[ceDesignId] = value] ELSE a
                IN [b EXCEPT !.lastCode = value]
       /\ codeTimer' = (Truthy(value) /\ ceDesignId # Null)
  /\ lastOp' = "handleEditorChange"
  /\ UNCHANGED <<loadVars, pureVars, echo>>
  /\ payloadCode' = NullText
  /\ UNCHANGED <<canvasVars, storeElements, storeDesignId, storeUserId, genVars, srvVars,
                 db, remoteDown, isSaving, saveTimer, newSession, ceVars, lastEdit>>

\* the auto-save timer of CodeEditor fires: CodeEditor.saveToSupabase(code)
codeAutoSave ==
  /\ codeTimer
  /\ Cardinality(uscCalls) < MaxInFlight
  /\ codeTimer' = FALSE
  /\ IF ceUserId # Null /\ ceDesignId # Null /\ ~ceIsSaving
     THEN /\ updateSupabaseCode(ceCode)
          /\ ls' = LET a == [ls EXCEPT !.token = ceDesignId]
                       b == setCodeStorage(a, storeDesignId, ceCode)
                       c == uscStorage(b, ceCode)
                   IN [c EXCEPT !.code[ceDesignId] = ceCode, !.lastCode = ceCode,
                                !.devLast = ceCode, !.final[ceDesignId] = ceCode]
     ELSE UNCHANGED <<storeCode, uscCalls, ls>>
  /\ lastOp' = "codeAutoSave"
  /\ UNCHANGED <<loadVars, pureVars, echo>>
  /\ payloadCode' = NullText
  /\ UNCHANGED <<canvasVars, storeElements, storeDesignId, storeUserId, genVars, srvVars,
                 db, remoteDown, isSaving, saveTimer, newSession, ceCode, ceVars, lastEdit>>

\* createNewSession without a user: a local session, nothing awaited
createLocalSession(s) ==
  /\ sessionId' = s
  /\ designId' = LocalId(s)
  /\ storeDesignId' = LocalId(s)
  /\ elements' = Shapes(0)
  /\ storeElements' = Shapes(0)
  /\ saveTimer' = FALSE

\* Canvas.onChangeHandler: Excalidraw reports the drawing els
onChangeHandler ==
  /\ \E els \in {Shapes(0), Shapes(1), Shapes(2)} \ {scene} :
       LET first == /\ Len(els) > 0
                    /\ Len(elements) = 0
                    /\ designId = Null \/ (IsLocal(designId) /\ userId # Null)
       IN /\ scene' = els
          /\ lastEdit' = els
          /\ IF first /\ userId = Null
             THEN /\ sessionId + 1 <= MaxSessions
                  /\ createLocalSession(sessionId + 1)
                  /\ UNCHANGED newSession
             ELSE IF first
             THEN /\ sessionId + 2 <= MaxSessions
                  /\ sessionId' = sessionId + 1
                  /\ newSession' = sessionId + 1
                  /\ elements' = els
                  /\ storeElements' = els
                  /\ saveTimer' = autoSaveEffect(els)
                  /\ UNCHANGED <<designId, storeDesignId>>
             ELSE /\ elements' = els
                  /\ storeElements' = IF Len(els) > 0 THEN els ELSE storeElements
                  /\ saveTimer' = autoSaveEffect(els)
                  /\ UNCHANGED <<sessionId, newSession, designId, storeDesignId>>
  /\ lastOp' = "onChangeHandler"
  /\ UNCHANGED <<loadVars, pureVars, echo>>
  /\ payloadCode' = NullText
  /\ UNCHANGED <<userId, supabaseError, toast, storeCode, storeUserId, genState, srvVars, ls,
                 db, remoteDown, isSaving, ceCode, ceVars, codeTimer, uscCalls>>

FreeIds == {id \in RemoteIds : ~db[id].exists}

\* createNewSession: the insert returns the new row
createNewSessionInserted ==
  /\ newSession # 0
  /\ ~remoteDown
  /\ FreeIds # {}
  /\ LET id == CHOOSE i \in FreeIds : TRUE
     IN /\ db' = [db EXCEPT ![id] = NewRow]
        /\ designId' = id
        /\ storeDesignId' = id
  /\ elements' = Shapes(0)
  /\ storeElements' = Shapes(0)
  /\ saveTimer' = FALSE
  /\ newSession' = 0
  /\ lastOp' = "createNewSessionInserted"
  /\ UNCHANGED <<loadVars, pureVars, echo>>
  /\ payloadCode' = NullText
  /\ UNCHANGED <<userId, sessionId, supabaseError, toast, storeCode, storeUserId, genVars,
                 srvVars, ls, remoteDown, isSaving, ceCode, ceVars, codeTimer, uscCalls, lastEdit>>

\* createNewSession: the insert fails, the catch falls back to a local session
createNewSessionFails ==
  /\ newSession # 0
  /\ supabaseError' = TRUE
  /\ createLocalSession(sessionId + 1)
  /\ newSession' = 0
  /\ lastOp' = "createNewSessionFails"
  /\ UNCHANGED <<loadVars, pureVars, echo>>
  /\ payloadCode' = NullText
  /\ UNCHANGED <<userId, toast, storeCode, storeUserId, genVars, srvVars, ls, db, remoteDown,
                 isSaving, ceCode, ceVars, codeTimer, uscCalls, lastEdit>>

\* the auto-save timer of Canvas fires; Canvas.saveToSupabase writes to
\* localStorage only and returns without awaiting anything
autoSave ==
  /\ saveTimer
  /\ saveTimer' = FALSE
  /\ ls' = saveToLocalStorage(ls, elements)
  /\ lastOp' = "autoSave"
  /\ UNCHANGED <<loadVars, pureVars, echo>>
  /\ payloadCode' = NullText
  /\ UNCHANGED <<canvasVars, storeVars, genVars, srvVars, db, remoteDown, isSaving,
                 newSession, ceCode, ceVars, codeTimer, uscCalls, lastEdit>>

\* the postgres_changes handlers of Canvas and CodeEditor for one UPDATE
\* event with the row's excalidraw_data and code
deliverUpdate(data, pcode) ==
  /\ payloadCode' = pcode
  /\ IF ~isSaving
     THEN /\ elements' = data
          /\ storeElements' = data
          /\ saveTimer' = IF data # elements THEN autoSaveEffect(data) ELSE saveTimer
     ELSE UNCHANGED <<elements, storeElements, saveTimer>>
  /\ IF ceUserId # Null /\ ceDesignId = designId /\ ~ceIsSaving /\ Truthy(pcode)
     THEN IF Truthy(storeCode) /\ storeCode # pcode
          THEN \* the effect on storeCode !== code puts the store's code back
               /\ Cardinality(uscCalls) < MaxInFlight
               /\ ceCode' = storeCode
               /\ updateSupabaseCode(storeCode)
               /\ ls' = uscStorage(ls, storeCode)
               /\ codeTimer' = IF storeCode # ceCode THEN TRUE ELSE codeTimer
          ELSE /\ ceCode' = pcode
               /\ codeTimer' = IF pcode # ceCode THEN TRUE ELSE codeTimer
               /\ UNCHANGED <<storeCode, uscCalls, ls>>
     ELSE UNCHANGED <<ceCode, codeTimer, storeCode, uscCalls, ls>>

\* a postgres_changes UPDATE of the subscribed design, written by another
\* client, reaches both handlers
realtimeUpdate ==
  /\ ~remoteDown
  /\ userId # Null
  /\ designId \in RemoteIds
  /\ db[designId].exists
  /\ \E data \in {Shapes(0), <<2>>}, pcode \in {NullText, RemoteText} :
       deliverUpdate(data, pcode)
  /\ lastOp' = "realtimeUpdate"
  /\ UNCHANGED <<loadVars, pureVars, echo>>
  /\ UNCHANGED <<userId, designId, sessionId, supabaseError, toast, storeDesignId,
                 storeUserId, genVars, srvVars, db, remoteDown, isSaving, newSession,
                 ceVars, lastEdit>>

\* the UPDATE event of this client's own code update reaches both handlers:
\* its payload is the row as the table holds it
codeUpdateEvent ==
  /\ echo
  /\ echo' = FALSE
  /\ ~remoteDown
  /\ userId # Null
  /\ designId \in RemoteIds
  /\ db[designId].exists
  /\ deliverUpdate(db[designId].data, db[designId].code)
  /\ lastOp' = "codeUpdateEvent"
  /\ UNCHANGED <<loadVars, pureVars>>
  /\ UNCHANGED <<userId, designId, sessionId, supabaseError, toast, storeDesignId,
                 storeUserId, genVars, srvVars, db, remoteDown, isSaving, newSession,
                 ceVars, lastEdit>>

\* the realtime channel reports CHANNEL_ERROR
channelError ==
  /\ userId # Null
  /\ designId # Null
  /\ ~supabaseError
  /\ supabaseError' = TRUE
  /\ saveTimer' = autoSaveEffect(elements)
  /\ lastOp' = "channelError"
  /\ UNCHANGED <<loadVars, pureVars, echo>>
  /\ payloadCode' = NullText
  /\ UNCHANGED <<elements, userId, designId, sessionId, toast, storeVars, genVars, srvVars,
                 ls, db, remoteDown, isSaving, newSession, ceCode, ceVars, codeTimer, uscCalls,
                 lastEdit>>

\* Canvas.retrySupabaseConnection: getSession resolves, with a session or
\* with an error object, or rejects
retrySupabaseConnection ==
  /\ supabaseError
  /\ \E outcome \in {"session", "error", "rejects"} :
       /\ outcome = "session" => ~remoteDown
       /\ IF outcome = "rejects"
          THEN UNCHANGED <<supabaseError, saveTimer>>
          ELSE /\ supabaseError' = FALSE
               /\ saveTimer' = autoSaveEffect(elements)
  /\ lastOp' = "retrySupabaseConnection"
  /\ UNCHANGED <<loadVars, pureVars, echo>>
  /\ payloadCode' = NullText
  /\ UNCHANGED <<elements, userId, designId, sessionId, toast, storeVars, genVars, srvVars,
                 ls, db, remoteDown, isSaving, newSession, ceCode, ceVars, codeTimer, uscCalls,
                 lastEdit>>

(***************************************************************************)
(* Pure functions of Canvas: the pre-processing of the elements in         *)
(* generateCode, and generateUUID                                          *)
(***************************************************************************)
\* an element of the drawing: its type, its geometry, and for a text its
\* font size and the length of its text (0 when the field is missing)
Element(type, width, height, fontSize, textLen) ==
  [type |-> type, width |-> width, height |-> height, fontSize |-> fontSize,
   textLen |-> textLen, uiHint |-> Null]

\* the pre-processing with the button check made last
processElementButtonLast(element) ==
  IF element.type = "rectangle"
  THEN [element EXCEPT !.uiHint =
          IF element.width < 200 /\ element.height < 100 THEN "button"
          ELSE IF element.width > 150 /\ element.height < 60 THEN "input"
          ELSE IF element.width > 200 /\ element.height > 200 THEN "card"
          ELSE "container"]
  ELSE IF element.type = "text"
  THEN [element EXCEPT !.uiHint =
          IF element.fontSize > 20 THEN "heading"
          ELSE IF element.textLen > 0 /\ element.textLen < 20 THEN "label"
          ELSE "paragraph"]
  ELSE IF element.type = "ellipse"
  THEN [element EXCEPT !.uiHint =
          IF element.width < 50 /\ element.height < 50 THEN "icon" ELSE "button"]
  ELSE IF element.type = "line"
  THEN [element EXCEPT !.uiHint = "divider"]
  ELSE element

\* the callback of sketchElements.map: a copy of the element with its hint;
\* for a rectangle the checks are made one after the other and the last one
\* that holds decides
processElement(element) ==
  IF element.type = "rectangle"
  THEN [element EXCEPT !.uiHint =
          IF element.width > 150 /\ element.height < 60 THEN "input"
          ELSE IF element.width > 200 /\ element.height > 200 THEN "card"
          ELSE IF element.width < 200 /\ element.height < 100 THEN "button"
          ELSE "container"]
  ELSE IF element.type = "text"
  THEN [element EXCEPT !.uiHint =
          IF element.fontSize > 20 THEN "heading"
          ELSE IF element.textLen > 0 /\ element.textLen < 20 THEN "label"
          ELSE "paragraph"]
  ELSE IF element.type = "ellipse"
  THEN [element EXCEPT !.uiHint =
          IF element.width < 50 /\ element.height < 50 THEN "icon" ELSE "button"]
  ELSE IF element.type = "line"
  THEN [element EXCEPT !.uiHint = "divider"]
  ELSE element

hexDigits ==
  <<"0", "1", "2", "3", "4", "5", "6", "7", "8", "9", "a", "b", "c", "d", "e", "f">>


\* the result of the n-th call of Math.random() (n from 0), in sixteenths
Random(r, n) == r[(n % Len(r)) + 1]

\* generateUUID with every random digit drawn from 0..15
generateUUIDAnyVariant(r) ==
  [p \in 1..36 |->
     LET i == p - 1
         n == i - Cardinality({f \in {8, 13, 14, 18, 23} : f < i})
     IN IF i \in {8, 13, 18, 23} THEN "-"
        ELSE IF i = 14 THEN "4"
        ELSE hexDigits[Random(r, n) + 1]]

\* generateUUID: r holds the results of Math.random() in sixteenths, so that
\* Math.floor(Math.random() * 16) is the value and Math.floor(Math.random() *
\* 4) its quarter
generateUUID(r) ==
  [p \in 1..36 |->
     LET i == p - 1
         n == i - Cardinality({f \in {8, 13, 14, 18, 23} : f < i})
     IN IF i \in {8, 13, 18, 23} THEN "-"
        ELSE IF i = 14 THEN "4"
        ELSE IF i = 19 THEN hexDigits[(Random(r, n) \div 4) + 8 + 1]
        ELSE hexDigits[Random(r, n) + 1]]

\* nothing is being pre-processed and no identifier is being generated
PureIdle ==
  /\ drawn = <<>>
  /\ processedElements = <<>>
  /\ randoms = <<0>>
  /\ uuid = <<>>

\* the page has loaded: no effect is due, nothing has thrown
LoadIdle ==
  /\ url = Null
  /\ auth = "user"
  /\ dbSession = [id \in RemoteIds |-> 0]
  /\ lsBroken = FALSE
  /\ uncaught = FALSE
  /\ ceError = "none"
  /\ pending = {}
  /\ navFrom = Null
  /\ urlLoads = {}

\* the persistence state of a page on which nothing has been edited yet
SyncIdle ==
  /\ db = [id \in RemoteIds |-> IF id = designId THEN NewRow ELSE NoRow]
  /\ isSaving = FALSE
  /\ saveTimer = FALSE
  /\ newSession = 0
  /\ ceCode = storeCode
  /\ ceDesignId = storeDesignId
  /\ ceUserId = storeUserId
  /\ ceIsSaving = FALSE
  /\ saveCall = NullText
  /\ codeTimer = FALSE
  /\ uscCalls = {}
  /\ echo = FALSE
  /\ payloadCode = NullText
  /\ lastEdit = NullElems

(***************************************************************************)
(* The generation pipeline                                                 *)
(***************************************************************************)
OldCode == TextOf(<<"x">>)

InitGen ==
  /\ scene \in {Shapes(0), Shapes(1), Shapes(ComplexThreshold), Shapes(ComplexThreshold + 1)}
  /\ elements = scene
  /\ \E cfg \in {<<Null, Null, Null>>, <<"d1", "d1", "u1">>, <<"local-s1", Null, Null>>} :
       /\ designId = cfg[1]
       /\ storeDesignId = cfg[2]
       /\ userId = cfg[3]
       /\ storeUserId = cfg[3]
  /\ sessionId = 1
  /\ supabaseError = FALSE
  /\ toast = Null
  /\ isGenerating = FALSE
  /\ generationError = Null
  /\ storeElements = elements
  /\ storeCode = OldCode
  /\ ls = setCodeStorage(EmptyStorage, storeDesignId, storeCode)
  /\ gpc = "idle"
  /\ gcode = EmptyText
  /\ codeComplete = FALSE
  /\ sawLast = FALSE
  /\ attempt = 0
  /\ timers45 = {}
  /\ timedOut = FALSE
  /\ fetches = <<>>
  /\ srvPc = "idle"
  /\ srvMode = "json"
  /\ srvReq = NoRequest
  /\ wire = <<>>
  /\ wireClosed = FALSE
  /\ streamed = <<>>
  /\ jsonResp = NoResponse
  /\ aiCall = NoCall
  /\ remoteDown = FALSE
  /\ SyncIdle
  /\ LoadIdle
  /\ PureIdle
  /\ lastOp = "init"

NextGen ==
  \/ generateCode
  \/ nonStreamingResponse
  \/ nonStreamingFetchFails
  \/ streamingResponse
  \/ streamingHttpError
  \/ streamingFetchFails
  \/ readChunk
  \/ readSplitLine
  \/ readDone
  \/ readFails
  \/ generationTimeout
  \/ aiReturns
  \/ routeTimeout
  \/ callSketchToCode
  \/ postWithoutDesignId

SpecGen == InitGen /\ [][NextGen]_vars

\* the Canvas alone is fair: it reads what has arrived, sees the end of a
\* closed stream, and its 45 second timers fire; the server and the network
\* may take any time or never answer
SpecGenFair ==
  /\ SpecGen
  /\ WF_vars(readChunk)
  /\ WF_vars(readDone)
  /\ WF_vars(generationTimeout)


(***************************************************************************)
(* Persistence of a design                                                 *)
(***************************************************************************)
\* the page after loading: a signed-in user without a design yet, a
\* signed-in user with the design d1, or nobody signed in and a local design
InitSync ==
  /\ \E cfg \in {<<Null, Null, "u1">>, <<"d1", "d1", "u1">>, <<"local-s1", Null, Null>>} :
       /\ designId = cfg[1]
       /\ storeDesignId = cfg[2]
       /\ userId = cfg[3]
       /\ storeUserId = cfg[3]
  /\ remoteDown \in BOOLEAN
  /\ scene = Shapes(0)
  /\ elements = scene
  /\ sessionId = 1
  /\ supabaseError = FALSE
  /\ toast = Null
  /\ isGenerating = FALSE
  /\ generationError = Null
  /\ storeElements = elements
  /\ storeCode = EmptyText
  /\ ls = EmptyStorage
  /\ gpc = "idle"
  /\ gcode = EmptyText
  /\ codeComplete = FALSE
  /\ sawLast = FALSE
  /\ attempt = 0
  /\ timers45 = {}
  /\ timedOut = FALSE
  /\ fetches = <<>>
  /\ srvPc = "idle"
  /\ srvMode = "json"
  /\ srvReq = NoRequest
  /\ wire = <<>>
  /\ wireClosed = FALSE
  /\ streamed = <<>>
  /\ jsonResp = NoResponse
  /\ aiCall = NoCall
  /\ SyncIdle
  /\ LoadIdle
  /\ PureIdle
  /\ lastOp = "init"

NextSync ==
  \/ onChangeHandler
  \/ createNewSessionInserted
  \/ createNewSessionFails
  \/ autoSave
  \/ handleEditorChange
  \/ codeAutoSave
  \/ updateSucceeds
  \/ updateFails
  \/ realtimeUpdate
  \/ codeUpdateEvent
  \/ channelError
  \/ retrySupabaseConnection

SpecSync == InitSync /\ [][NextSync]_vars


(***************************************************************************)
(* The save of CodeEditor that awaits the designs table (SpecSave).        *)
(*                                                                         *)
(* CodeEditor.tsx holds a second definition of the component from line     *)
(* 1393 on, whose saveToSupabase awaits updateDesignCode between setting   *)
(* and clearing the isSaving ref.  The designs table has its code column,  *)
(* so updateDesignCode answers after its first update: success, or the     *)
(* error of the request.  onChange is DrawPage's updateSupabaseCode.       *)
(***************************************************************************)
\* handleEditorChange: setCode(value); the auto-save effect runs again for
\* the new code and sets its timer unless the code is empty
setCodeFromEditor ==
  /\ \E value \in EditorTexts \ {ceCode} :
       /\ ceCode' = value
       /\ codeTimer' = (Truthy(value) /\ ceDesignId # Null)
  /\ lastOp' = "setCodeFromEditor"
  /\ UNCHANGED <<loadVars, pureVars, echo>>
  /\ payloadCode' = NullText
  /\ UNCHANGED <<canvasVars, storeVars, genVars, srvVars, ls, db, remoteDown, isSaving,
                 saveTimer, newSession, ceVars, uscCalls, lastEdit>>

\* the timer of the auto-save effect fires: saveToSupabase(code) returns at
\* once while a save is awaited, otherwise it sends the update
saveToSupabaseCalled ==
  /\ codeTimer
  /\ codeTimer' = FALSE
  /\ IF ceUserId # Null /\ ceDesignId # Null /\ ~ceIsSaving
     THEN /\ ceIsSaving' = TRUE
          /\ saveCall' = OrEmpty(ceCode)
          /\ ls' = [ls EXCEPT !.token = ceDesignId]
     ELSE UNCHANGED <<ceIsSaving, saveCall, ls>>
  /\ lastOp' = "saveToSupabaseCalled"
  /\ UNCHANGED <<loadVars, pureVars, echo>>
  /\ payloadCode' = NullText
  /\ UNCHANGED <<canvasVars, storeVars, genVars, srvVars, db, remoteDown, isSaving,
                 saveTimer, newSession, ceCode, ceDesignId, ceUserId, uscCalls, lastEdit>>

\* updateDesignCode answers { success: true }: the row holds the code, the
\* error is cleared, onChange is called and the finally block clears the ref
saveToSupabaseSaved ==
  /\ ceIsSaving
  /\ ~remoteDown
  /\ Cardinality(uscCalls) < MaxInFlight
  /\ db' = IF ceDesignId \in RemoteIds /\ db[ceDesignId].exists
           THEN [db EXCEPT ![ceDesignId].code = saveCall]
           ELSE db
  /\ ceError' = "none"
  /\ updateSupabaseCode(saveCall)
  /\ ceIsSaving' = FALSE
  /\ saveCall' = NullText
  /\ lastOp' = "saveToSupabaseSaved"
  /\ payloadCode' = NullText
  /\ UNCHANGED <<canvasVars, storeElements, storeDesignId, storeUserId, genVars, srvVars, ls,
                 remoteDown, isSaving, saveTimer, newSession, ceCode, ceDesignId, ceUserId,
                 codeTimer, echo, lastEdit, url, auth, dbSession, lsBroken, uncaught, pending,
                 navFrom, urlLoads, pureVars>>

\* updateDesignCode answers { success: false, error }: the catch block sets
\* the error, puts the code of the call back with setCode and calls onChange
saveToSupabaseFailed ==
  /\ ceIsSaving
  /\ Cardinality(uscCalls) < MaxInFlight
  /\ ceError' = "save"
  /\ ceCode' = saveCall
  /\ codeTimer' = IF saveCall # ceCode THEN Truthy(saveCall) /\ ceDesignId # Null
                  ELSE codeTimer
  /\ updateSupabaseCode(saveCall)
  /\ ceIsSaving' = FALSE
  /\ saveCall' = NullText
  /\ lastOp' = "saveToSupabaseFailed"
  /\ payloadCode' = NullText
  /\ UNCHANGED <<canvasVars, storeElements, storeDesignId, storeUserId, genVars, srvVars, ls,
                 db, remoteDown, isSaving, saveTimer, newSession, ceDesignId, ceUserId, echo,
                 lastEdit, url, auth, dbSession, lsBroken, uncaught, pending, navFrom,
                 urlLoads, pureVars>>

\* the page shows the design d1 of the signed-in user
InitSave ==
  /\ InitSync
  /\ designId = "d1"

NextSave ==
  \/ setCodeFromEditor
  \/ saveToSupabaseCalled
  \/ saveToSupabaseSaved
  \/ saveToSupabaseFailed
  \/ updateSucceeds
  \/ updateFails

SpecSave == InitSave /\ [][NextSave]_vars

\* the timer fires one second after the last change of the code, and every
\* request to the designs table is answered; the user may stop editing
SpecSaveFair ==
  /\ SpecSave
  /\ WF_vars(saveToSupabaseCalled)
  /\ WF_vars(saveToSupabaseSaved \/ saveToSupabaseFailed)
  /\ WF_vars(updateSucceeds \/ updateFails)


(***************************************************************************)
(* Loading the page: the mount effects of Canvas and CodeEditor, the load  *)
(* effects of both, DrawPage's creation of a design, and the resolution of *)
(* the design id in CodeEditor.                                            *)
(*                                                                         *)
(* A load effect is followed from its start to its end in one step: the    *)
(* answers it awaits are fixed by db, dbSession, remoteDown and auth.      *)
(* Every row of the designs table holds a drawing: each insert of the      *)
(* program writes excalidraw_data: [].  The timers armed by the effects    *)
(* are followed in SpecSync.                                               *)
(***************************************************************************)
Effects == {"canvasMount", "canvasFetch", "ceMount", "ceFetch", "createNewDesign"}

RECURSIVE SetMax(_)
SetMax(S) ==
  IF S = {} THEN 0
  ELSE LET x == CHOOSE y \in S : TRUE
           m == SetMax(S \ {x})
       IN IF x > m THEN x ELSE m

\* generateUUID: an id that names no session the state knows
FreshSession ==
  1 + SetMax({sessionId, ls.session}
             \cup {dbSession[d] : d \in RemoteIds}
             \cup {s \in SessionIds : LocalId(s) \in {designId, storeDesignId}})

\* created_at of the rows, in the order of the ids
Rank(d) == IF d = "d1" THEN 1 ELSE 2
\* .order('created_at', { ascending: false }): the first row
Newest(S) == CHOOSE d \in S : \A e \in S : Rank(e) <= Rank(d)

\* .select(...).eq('id', id).single()
selectById(id) ==
  IF remoteDown THEN "error"
  ELSE IF id \in RemoteIds /\ db[id].exists THEN "row"
  ELSE "missing"

\* CodeEditor.saveDesignToken; the backup copies of the token are never read
saveDesignToken(lsv, designToken) ==
  IF designToken = Null \/ lsBroken THEN lsv ELSE [lsv EXCEPT !.token = designToken]

\* CodeEditor.getDesignToken
getDesignToken(lsv) == IF lsBroken THEN Null ELSE lsv.token

\* CodeEditor.getCodeFromLocalStorage
getCodeFromLocalStorage(lsv, id) ==
  IF id = Null \/ lsBroken THEN NullText
  ELSE IF Truthy(lsv.code[id]) THEN lsv.code[id]
  ELSE IF Truthy(lsv.final[id]) THEN lsv.final[id]
  ELSE IF Truthy(lsv.devLast) THEN lsv.devLast
  ELSE IF Truthy(lsv.lastCode) THEN lsv.lastCode
  ELSE NullText

\* CodeEditor.getDesignIdFromExcalidrawSession: the design of the stored
\* drawing-session id, else a design that holds the first element of the
\* stored drawing; the id found is saved as the design token
getDesignIdFromExcalidrawSession(lsv) ==
  IF lsBroken THEN [id |-> Null, ls |-> lsv]
  ELSE LET bySession ==
             IF lsv.session # 0 /\ ~remoteDown
             THEN {d \in RemoteIds : db[d].exists /\ dbSession[d] = lsv.session}
             ELSE {}
           byBackup ==
             IF lsv.backup # NullElems /\ Len(lsv.backup) > 0 /\ ~remoteDown
             THEN {d \in RemoteIds :
                     /\ db[d].exists
                     /\ \E i \in 1..Len(db[d].data) : db[d].data[i] = lsv.backup[1]}
             ELSE {}
       IN IF bySession # {}
          THEN [id |-> Newest(bySession), ls |-> saveDesignToken(lsv, Newest(bySession))]
          ELSE IF byBackup # {}
          THEN [id |-> Newest(byBackup), ls |-> saveDesignToken(lsv, Newest(byBackup))]
          ELSE [id |-> Null, ls |-> lsv]

\* resolution with the stored token ranked above the URL id, the URL id
\* still being written to the design-token key
resolveDesignIdTokenFirst(urlDesignId, lsv) ==
  IF getDesignToken(lsv) # Null
  THEN [id |-> getDesignToken(lsv),
        ls |-> IF urlDesignId # Null THEN saveDesignToken(lsv, urlDesignId) ELSE lsv]
  ELSE IF urlDesignId # Null
  THEN [id |-> urlDesignId, ls |-> saveDesignToken(lsv, urlDesignId)]
  ELSE getDesignIdFromExcalidrawSession(lsv)

\* the resolution of the design id in CodeEditor.fetchData, written once
\* before the direct load and once more after authentication
resolveDesignId(urlDesignId, lsv) ==
  IF urlDesignId # Null
  THEN [id |-> urlDesignId, ls |-> saveDesignToken(lsv, urlDesignId)]
  ELSE IF getDesignToken(lsv) # Null
  THEN [id |-> getDesignToken(lsv), ls |-> lsv]
  ELSE getDesignIdFromExcalidrawSession(lsv)

\* DrawPage's onChange, the store's updateSupabaseCode, on the values st
onChange(st, c) ==
  [st EXCEPT !.storeCode = OrEmpty(c),
             !.ls = IF lsBroken THEN st.ls ELSE setCodeStorage(st.ls, storeDesignId, c),
             !.calls = IF storeDesignId # Null /\ storeUserId # Null
                       THEN st.calls \cup {[id |-> storeDesignId, code |-> c, try |-> 1]}
                       ELSE st.calls]

\* the store's setCode on the values st
setStoreCode(st, c) ==
  [st EXCEPT !.storeCode = OrEmpty(c),
             !.ls = IF lsBroken THEN st.ls ELSE setCodeStorage(st.ls, storeDesignId, c)]

\* setCode(c); onChange(c)
useCode(st, c) == onChange([st EXCEPT !.code = c], c)

\* CodeEditor.fetchData after authentication, for the user found
ceLoadForUser(st) ==
  LET r == resolveDesignId(url, st.ls)
      s1 == [st EXCEPT !.userId = "u1",
                       !.ls = r.ls,
                       !.designId = IF url = Null /\ r.id # Null THEN r.id ELSE st.designId]
  IN IF r.id = Null THEN s1
     ELSE IF selectById(r.id) # "row" THEN [s1 EXCEPT !.error = "db"]
     ELSE LET s2 == [s1 EXCEPT !.designId = r.id, !.ls = saveDesignToken(s1.ls, r.id)]
          IN IF Truthy(db[r.id].code) THEN useCode(s2, db[r.id].code)
             ELSE [s2 EXCEPT !.code = EmptyText]

\* CodeEditor.fetchData from the resolution of the design id on: the direct
\* load, then authentication
ceLoadFromDatabase(st) ==
  LET r == resolveDesignId(url, st.ls)
      s1 == [st EXCEPT !.ls = r.ls,
                       !.designId = IF url = Null /\ r.id # Null THEN r.id ELSE st.designId]
      s2 == IF r.id # Null /\ selectById(r.id) = "row" /\ Truthy(db[r.id].code)
            THEN useCode(s1, db[r.id].code)
            ELSE s1
  IN IF auth = "error" THEN [s2 EXCEPT !.error = "auth"]
     ELSE IF auth = "none" THEN s2
     ELSE ceLoadForUser(s2)

\* CodeEditor.fetchData; storeCode is the store's code of the render that
\* started the effect
ceFetchData(st) ==
  LET s0 == [st EXCEPT !.error = "none"]
      currentDesignId == IF url # Null THEN url ELSE getDesignToken(st.ls)
      localCode == getCodeFromLocalStorage(st.ls, currentDesignId)
      genericCode == IF Truthy(st.ls.devLast) THEN st.ls.devLast ELSE st.ls.lastCode
  IN IF Truthy(storeCode) THEN useCode(s0, storeCode)
     ELSE IF currentDesignId # Null /\ Truthy(localCode)
     THEN setStoreCode(useCode(s0, localCode), localCode)
     ELSE IF currentDesignId = Null /\ lsBroken
     THEN \* localStorage.getItem throws outside the helpers: the outer catch
          [s0 EXCEPT !.error = "storage"]
     ELSE IF currentDesignId = Null /\ Truthy(genericCode)
     THEN setStoreCode(useCode(s0, genericCode), genericCode)
     ELSE ceLoadFromDatabase(s0)

\* Canvas.createLocalDesign with loadFromLocalStorage: the values it sets
createLocalDesign ==
  LET newSessionId == FreshSession
      saved == ~lsBroken /\ ls.backup # NullElems
  IN [designId |-> LocalId(newSessionId),
      elements |-> IF saved THEN ls.backup ELSE Shapes(0),
      sessionId |-> IF saved
                    THEN (IF ls.session # 0 THEN ls.session ELSE newSessionId + 1)
                    ELSE IF sessionId = 0 THEN newSessionId + 1 ELSE newSessionId]

\* the effect of Canvas on elements: the store gets a drawing that is not
\* empty, and the auto-save timer is set again
elementsEffects ==
  /\ storeElements' = IF Len(elements') > 0 THEN elements' ELSE storeElements
  /\ saveTimer' = IF elements' # elements THEN autoSaveEffect(elements') ELSE saveTimer

\* the mount effect of Canvas: a first session id, written to localStorage
\* outside any try
canvasMount ==
  /\ ~uncaught
  /\ "canvasMount" \in pending
  /\ pending' = pending \ {"canvasMount"}
  /\ FreshSession <= MaxSessions
  /\ IF sessionId = 0
     THEN /\ sessionId' = FreshSession
          /\ IF lsBroken
             THEN uncaught' = TRUE /\ UNCHANGED ls
             ELSE ls' = [ls EXCEPT !.session = FreshSession] /\ UNCHANGED uncaught
     ELSE UNCHANGED <<sessionId, ls, uncaught>>
  /\ lastOp' = "canvasMount"
  /\ UNCHANGED <<elements, userId, designId, supabaseError, toast, storeVars, genVars,
                 srvVars, syncVars, url, auth, dbSession, lsBroken, urlLoads, pureVars, navFrom,
                 ceError>>

\* the load effect of Canvas, fetchData
fetchData ==
  /\ ~uncaught
  /\ "canvasFetch" \in pending
  /\ "canvasMount" \notin pending
  /\ FreshSession + 1 <= MaxSessions
  /\ LET local == createLocalDesign
         failed == url # Null /\ selectById(url) # "row"
     IN /\ supabaseError' = (auth = "error")
        /\ IF auth = "user"
           THEN userId' = "u1" /\ storeUserId' = "u1"
           ELSE UNCHANGED <<userId, storeUserId>>
        /\ IF auth = "none" \/ (auth = "user" /\ failed)
           THEN \* no session, or the catch of the database operations
                /\ designId' = local.designId
                /\ elements' = local.elements
                /\ sessionId' = local.sessionId
                /\ UNCHANGED storeDesignId
           ELSE IF auth = "user" /\ url # Null
           THEN /\ designId' = url
                /\ storeDesignId' = url
                /\ elements' = db[url].data
                /\ sessionId' = IF dbSession[url] # 0 THEN dbSession[url] ELSE sessionId
           ELSE UNCHANGED <<designId, storeDesignId, elements, sessionId>>
  /\ elementsEffects
  /\ pending' = IF sessionId' # sessionId THEN pending ELSE pending \ {"canvasFetch"}
  /\ lastOp' = "fetchData"
  /\ UNCHANGED <<toast, storeCode, genVars, srvVars, ls, db, remoteDown, isSaving, newSession,
                 ceCode, ceVars, codeTimer, uscCalls, echo, payloadCode, lastEdit, url, auth,
                 dbSession, lsBroken, urlLoads, pureVars, navFrom, uncaught, ceError>>

\* the URL effect of Canvas with loadDesignFromUrl
loadDesignFromUrl ==
  /\ ~uncaught
  /\ url # Null
  /\ url # designId
  /\ designId' = url
  /\ storeDesignId' = url
  /\ IF selectById(url) = "row"
     THEN /\ elements' = db[url].data
          /\ sessionId' = IF dbSession[url] # 0 THEN dbSession[url] ELSE sessionId
     ELSE UNCHANGED <<elements, sessionId>>
  /\ elementsEffects
  /\ pending' = IF sessionId' # sessionId THEN pending \cup {"canvasFetch"} ELSE pending
  /\ lastOp' = "loadDesignFromUrl"
  /\ UNCHANGED <<userId, supabaseError, toast, storeCode, storeUserId, genVars, srvVars, ls,
                 db, remoteDown, isSaving, newSession, ceCode, ceVars, codeTimer, uscCalls, echo,
                 payloadCode,
                 lastEdit, url, auth, dbSession, lsBroken, urlLoads, pureVars, navFrom, uncaught,
                 ceError>>

\* the URL effect of Canvas up to its await: the ids are set and the select
\* of the design is sent
loadDesignFromUrlSent ==
  /\ ~uncaught
  /\ url # Null
  /\ url # designId
  /\ designId' = url
  /\ storeDesignId' = url
  /\ urlLoads' = urlLoads \cup {url}
  /\ lastOp' = "loadDesignFromUrlSent"
  /\ UNCHANGED <<elements, userId, sessionId, supabaseError, toast, storeElements, storeCode,
                 storeUserId, genVars, srvVars, syncVars, pureVars, ls, url, auth, dbSession,
                 lsBroken, uncaught, ceError, pending, navFrom>>

\* the select sent by the URL effect for the design id is answered: the rest
\* of loadDesignFromUrl runs
loadDesignFromUrlAnswered ==
  /\ ~uncaught
  /\ \E id \in urlLoads :
       /\ urlLoads' = urlLoads \ {id}
       /\ IF selectById(id) = "row"
          THEN /\ elements' = db[id].data
               /\ sessionId' = IF dbSession[id] # 0 THEN dbSession[id] ELSE sessionId
          ELSE UNCHANGED <<elements, sessionId>>
  /\ elementsEffects
  /\ pending' = IF sessionId' # sessionId THEN pending \cup {"canvasFetch"} ELSE pending
  /\ lastOp' = "loadDesignFromUrlAnswered"
  /\ UNCHANGED <<userId, designId, supabaseError, toast, storeCode, storeDesignId, storeUserId,
                 genVars, srvVars, ls, db, remoteDown, isSaving, newSession, ceCode, ceVars,
                 codeTimer, uscCalls, echo, payloadCode, lastEdit, pureVars, url, auth,
                 dbSession, lsBroken, uncaught, ceError, navFrom>>

\* the mount effect of CodeEditor reads the force-reload flag outside any try
ceMount ==
  /\ ~uncaught
  /\ "ceMount" \in pending
  /\ pending' = pending \ {"ceMount"}
  /\ uncaught' = lsBroken
  /\ lastOp' = "ceMount"
  /\ UNCHANGED <<canvasVars, storeVars, genVars, srvVars, syncVars, ls, url, auth, dbSession,
                 lsBroken, urlLoads, pureVars, navFrom, ceError>>

\* the load effect of CodeEditor
ceFetch ==
  /\ ~uncaught
  /\ "ceFetch" \in pending
  /\ "ceMount" \notin pending
  /\ Cardinality(uscCalls) < MaxInFlight
  /\ pending' = pending \ {"ceFetch"}
  /\ LET st == ceFetchData([code |-> ceCode, designId |-> ceDesignId, userId |-> ceUserId,
                            error |-> ceError, storeCode |-> storeCode, ls |-> ls,
                            calls |-> uscCalls])
     IN /\ ceCode' = st.code
        /\ ceDesignId' = st.designId
        /\ ceUserId' = st.userId
        /\ ceError' = st.error
        /\ storeCode' = st.storeCode
        /\ ls' = st.ls
        /\ uscCalls' = st.calls
        /\ codeTimer' = IF <<st.code, st.designId, st.userId>> # <<ceCode, ceDesignId, ceUserId>>
                        THEN Truthy(st.code) /\ st.designId # Null
                        ELSE codeTimer
  /\ lastOp' = "ceFetchData"
  /\ UNCHANGED <<canvasVars, storeElements, storeDesignId, storeUserId, genVars, srvVars, db,
                 remoteDown, isSaving, saveTimer, newSession, ceIsSaving, saveCall, echo,
                 payloadCode,
                 lastEdit, url, auth, dbSession, lsBroken, urlLoads, pureVars, navFrom, uncaught>>

\* DrawPage.createNewDesign: without an id in the URL a row is inserted for
\* the user and the URL is replaced; Canvas and CodeEditor load again
createNewDesign ==
  /\ ~uncaught
  /\ "createNewDesign" \in pending
  /\ auth = "user"
  /\ url = Null
  /\ FreshSession <= MaxSessions
  /\ IF ~remoteDown /\ FreeIds # {}
     THEN LET id == CHOOSE i \in FreeIds : TRUE
          IN /\ db' = [db EXCEPT ![id] = NewRow]
             /\ dbSession' = [dbSession EXCEPT ![id] = FreshSession]
             /\ url' = id
             /\ ls' = IF lsBroken THEN ls ELSE [ls EXCEPT !.session = FreshSession]
             /\ pending' = (pending \ {"createNewDesign"}) \cup {"canvasFetch", "ceFetch"}
     ELSE /\ pending' = pending \ {"createNewDesign"}
          /\ UNCHANGED <<db, dbSession, url, ls>>
  /\ lastOp' = "createNewDesign"
  /\ UNCHANGED <<canvasVars, storeVars, genVars, srvVars, remoteDown, isSaving, saveTimer,
                 newSession, ceCode, ceVars, codeTimer, uscCalls, echo, payloadCode, lastEdit, auth,
                 lsBroken, urlLoads, pureVars, navFrom, uncaught, ceError>>

\* the user follows a link to another design while the page is mounted: the
\* id parameter changes, and the effects that depend on it run again (the
\* load effect and the URL effect of Canvas, the mount and load effects of
\* CodeEditor)
navigate ==
  /\ ~uncaught
  /\ pending \subseteq {"createNewDesign"}
  /\ url # Null
  /\ url = designId
  /\ \E b \in RemoteIds \ {url} : url' = b
  /\ navFrom' = url
  /\ pending' = pending \cup {"canvasFetch", "ceMount", "ceFetch"}
  /\ lastOp' = "navigate"
  /\ UNCHANGED <<canvasVars, storeVars, genVars, srvVars, syncVars, ls, auth, dbSession,
                 lsBroken, urlLoads, pureVars, uncaught, ceError>>

\* what the browser holds before the page is opened
Storages ==
  {[EmptyStorage EXCEPT !.token = t, !.session = s, !.backup = b, !.lastCode = c] :
     t \in {Null, "d1", "d2"}, s \in {0, 1}, b \in {NullElems, Shapes(1)},
     c \in {NullText, TextOf(<<"x">>)}}

\* the page is opened: the initial state of Canvas, CodeEditor and the store
InitLoad ==
  /\ url \in {Null, "d1", "d2"}
  /\ auth \in {"user", "none", "error"}
  /\ remoteDown \in BOOLEAN
  /\ lsBroken \in BOOLEAN
  /\ ls \in Storages
  /\ \E c \in {NullText, RemoteText} :
       db = [id \in RemoteIds |->
               IF id = "d1" THEN [exists |-> TRUE, data |-> Shapes(1), code |-> c] ELSE NoRow]
  /\ \E s \in {0, 1} : dbSession = [id \in RemoteIds |-> IF id = "d1" THEN s ELSE 0]
  /\ uncaught = FALSE
  /\ ceError = "none"
  /\ pending = Effects
  /\ navFrom = Null
  /\ urlLoads = {}
  /\ PureIdle
  /\ scene = Shapes(0)
  /\ elements = Shapes(0)
  /\ userId = Null
  /\ designId = url
  /\ sessionId = 0
  /\ supabaseError = FALSE
  /\ toast = Null
  /\ isGenerating = FALSE
  /\ generationError = Null
  /\ storeElements = Shapes(0)
  /\ storeCode = EmptyText
  /\ storeDesignId = Null
  /\ storeUserId = Null
  /\ gpc = "idle"
  /\ gcode = EmptyText
  /\ codeComplete = FALSE
  /\ sawLast = FALSE
  /\ attempt = 0
  /\ timers45 = {}
  /\ timedOut = FALSE
  /\ fetches = <<>>
  /\ srvPc = "idle"
  /\ srvMode = "json"
  /\ srvReq = NoRequest
  /\ wire = <<>>
  /\ wireClosed = FALSE
  /\ streamed = <<>>
  /\ jsonResp = NoResponse
  /\ aiCall = NoCall
  /\ isSaving = FALSE
  /\ saveTimer = FALSE
  /\ newSession = 0
  /\ ceCode = EmptyText
  /\ ceDesignId = url
  /\ ceUserId = Null
  /\ ceIsSaving = FALSE
  /\ saveCall = NullText
  /\ codeTimer = FALSE
  /\ uscCalls = {}
  /\ echo = FALSE
  /\ payloadCode = NullText
  /\ lastEdit = NullElems
  /\ lastOp = "init"

NextLoad ==
  \/ canvasMount
  \/ fetchData
  \/ loadDesignFromUrl
  \/ ceMount
  \/ ceFetch
  \/ createNewDesign
  \/ navigate
  \/ updateSucceeds
  \/ updateFails

SpecLoad == InitLoad /\ [][NextLoad]_vars

(***************************************************************************)
(* One visit to the draw page without a design id (SpecVisit)              *)
(***************************************************************************)
\* a signed-in user with no design and an empty browser storage opens /draw
InitVisit ==
  /\ url = Null
  /\ auth = "user"
  /\ remoteDown \in BOOLEAN
  /\ lsBroken = FALSE
  /\ ls = EmptyStorage
  /\ db = [id \in RemoteIds |-> NoRow]
  /\ dbSession = [id \in RemoteIds |-> 0]
  /\ uncaught = FALSE
  /\ ceError = "none"
  /\ pending = Effects
  /\ navFrom = Null
  /\ urlLoads = {}
  /\ PureIdle
  /\ scene = Shapes(0)
  /\ elements = Shapes(0)
  /\ userId = Null
  /\ designId = url
  /\ sessionId = 0
  /\ supabaseError = FALSE
  /\ toast = Null
  /\ isGenerating = FALSE
  /\ generationError = Null
  /\ storeElements = Shapes(0)
  /\ storeCode = EmptyText
  /\ storeDesignId = Null
  /\ storeUserId = Null
  /\ gpc = "idle"
  /\ gcode = EmptyText
  /\ codeComplete = FALSE
  /\ sawLast = FALSE
  /\ attempt = 0
  /\ timers45 = {}
  /\ timedOut = FALSE
  /\ fetches = <<>>
  /\ srvPc = "idle"
  /\ srvMode = "json"
  /\ srvReq = NoRequest
  /\ wire = <<>>
  /\ wireClosed = FALSE
  /\ streamed = <<>>
  /\ jsonResp = NoResponse
  /\ aiCall = NoCall
  /\ isSaving = FALSE
  /\ saveTimer = FALSE
  /\ newSession = 0
  /\ ceCode = EmptyText
  /\ ceDesignId = url
  /\ ceUserId = Null
  /\ ceIsSaving = FALSE
  /\ saveCall = NullText
  /\ codeTimer = FALSE
  /\ uscCalls = {}
  /\ echo = FALSE
  /\ payloadCode = NullText
  /\ lastEdit = NullElems
  /\ lastOp = "init"

\* the effects of the page, the drawing changes of the user and the inserts
\* they start
NextVisit ==
  \/ canvasMount
  \/ fetchData
  \/ loadDesignFromUrl
  \/ loadDesignFromUrlSent
  \/ loadDesignFromUrlAnswered
  \/ ceMount
  \/ ceFetch
  \/ createNewDesign
  \/ onChangeHandler
  \/ createNewSessionInserted
  \/ createNewSessionFails
  \/ autoSave

SpecVisit == InitVisit /\ [][NextVisit]_vars

(***************************************************************************)
(* The pure functions on their own (SpecHint, SpecUuid)                    *)
(***************************************************************************)
\* the longest drawing that is pre-processed
MaxSketchLen == 2

\* the number of different results Math.random() gives before they repeat
RandomSeedLen == 3

\* widths and heights on both sides of every threshold of the rectangle checks
\* of a drawing's elements
SketchInputs ==
  {Element("rectangle", w, h, 0, 0) : w \in {60, 150, 151, 180, 199, 200, 201},
                                      h \in {30, 59, 60, 99, 100, 200, 201}}
    \cup {Element("ellipse", 49, 49, 0, 0), Element("ellipse", 50, 50, 0, 0)}
    \cup {Element("line", 120, 0, 0, 0), Element("arrow", 120, 40, 0, 0)}
    \cup {Element("text", 80, 25, fs, tl) : fs \in {20, 21}, tl \in {0, 19, 20}}

\* the page at rest, with an empty drawing and nobody signed in
QuietPage ==
  /\ scene = Shapes(0)
  /\ elements = scene
  /\ designId = Null
  /\ storeDesignId = Null
  /\ userId = Null
  /\ storeUserId = Null
  /\ sessionId = 1
  /\ supabaseError = FALSE
  /\ toast = Null
  /\ isGenerating = FALSE
  /\ generationError = Null
  /\ storeElements = elements
  /\ storeCode = OldCode
  /\ ls = setCodeStorage(EmptyStorage, storeDesignId, storeCode)
  /\ gpc = "idle"
  /\ gcode = EmptyText
  /\ codeComplete = FALSE
  /\ sawLast = FALSE
  /\ attempt = 0
  /\ timers45 = {}
  /\ timedOut = FALSE
  /\ fetches = <<>>
  /\ srvPc = "idle"
  /\ srvMode = "json"
  /\ srvReq = NoRequest
  /\ wire = <<>>
  /\ wireClosed = FALSE
  /\ streamed = <<>>
  /\ jsonResp = NoResponse
  /\ aiCall = NoCall
  /\ remoteDown = FALSE
  /\ SyncIdle
  /\ LoadIdle
  /\ lastOp = "init"

InitHint ==
  /\ QuietPage
  /\ drawn \in UNION {[1..n -> SketchInputs] : n \in 0..MaxSketchLen}
  /\ processedElements = <<>>
  /\ randoms = <<0>>
  /\ uuid = <<>>

\* generateCode maps the elements to their annotated copies; the elements
\* themselves are not assigned to
processElements ==
  /\ lastOp = "init"
  /\ processedElements' = [i \in 1..Len(drawn) |-> processElement(drawn[i])]
  /\ lastOp' = "processElements"
  /\ UNCHANGED <<canvasVars, storeVars, genVars, srvVars, syncVars, loadVars, ls,
                 drawn, randoms, uuid>>

SpecHint == InitHint /\ [][processElements]_vars

InitUuid ==
  /\ QuietPage
  /\ drawn = <<>>
  /\ processedElements = <<>>
  /\ randoms \in [1..RandomSeedLen -> 0..15]
  /\ uuid = <<>>

\* one call of generateUUID
callGenerateUUID ==
  /\ lastOp = "init"
  /\ uuid' = generateUUID(randoms)
  /\ lastOp' = "generateUUID"
  /\ UNCHANGED <<canvasVars, storeVars, genVars, srvVars, syncVars, loadVars, ls,
                 drawn, processedElements, randoms>>

SpecUuid == InitUuid /\ [][callGenerateUUID]_vars

(***************************************************************************)
(* Properties of the generation pipeline (SpecGen)                         *)
(***************************************************************************)
\* C1: for a non-empty sketch the result of a generation is exactly one of
\* non-empty code with no error, or empty code with a non-empty error; this
\* holds for what sketchToCode returns and for the non-streaming response
\* built from it.
C1_CodeXorError ==
  /\ aiCall.sketchLen > 0 =>
        \/ aiCall.result.code # EmptyText /\ aiCall.result.error = Null
        \/ aiCall.result.code = EmptyText /\ aiCall.result.error # Null
  /\ jsonResp.status # 0 =>
        \/ Truthy(jsonResp.code) /\ jsonResp.error = Null
        \/ jsonResp.code = EmptyText /\ jsonResp.error # Null

\* C2: an empty sketch fails before anything is sent.  generateCode with no
\* elements issues no request, starts no generation and creates no Design
\* row; sketchToCode with no elements returns empty code and the empty-sketch
\* error without consulting the rate limiter or a model.
C2_EmptySketchSendsNothing ==
  [][ /\ (lastOp' = "generateCode" /\ Len(sketchElements) = 0) =>
            /\ fetches' = fetches
            /\ srvPc' = srvPc
            /\ wire' = wire
            /\ aiCall' = aiCall
            /\ db' = db
            /\ gpc' = "idle"
            /\ ~isGenerating'
            /\ toast' = NoElementsToast
      /\ aiCall'.sketchLen = 0 =>
            /\ aiCall'.result.code = EmptyText
            /\ aiCall'.result.error = EmptySketchError
            /\ ~aiCall'.result.limiterUsed
            /\ aiCall'.result.modelCalls = 0 ]_vars

\* C2 witness: sketchToCode has been called with an empty sketch and
\* generateCode has just run on an empty drawing.
C2_Witness ==
  /\ lastOp = "generateCode"
  /\ Len(sketchElements) = 0
  /\ toast = NoElementsToast
  /\ fetches = <<>>
  /\ aiCall.sketchLen = 0
  /\ aiCall.result.error = EmptySketchError

\* C3: when the streamed generation completes, the code assembled by the
\* client is the whole code, the same code the non-streaming response
\* carries, however the messages were divided into reads.
C3_StreamAssemblesWholeCode ==
  (lastOp = "readDone" /\ codeComplete) =>
     gcode = jsonResponse(aiCall.result, srvReq.designId).code

\* C4: a streamed generation is reported complete (isGenerating cleared with
\* the success notice) only once a code message with isLast was processed,
\* and a stream that ends without one is reported as an error.
C4_CompleteOnlyAfterLast ==
  [][ /\ (lastOp' = "readChunk" /\ isGenerating /\ ~isGenerating' /\ toast' = SuccessToast)
            => sawLast'
      /\ (lastOp' = "readDone" /\ ~sawLast') => generationError' = StreamFailedError ]_vars

\* C12: each generation attempt is bounded by one 45 second timer.  The timer
\* that fires is the one armed by the current attempt, never one left by an
\* earlier attempt; when it fires the timeout error is shown and the attempt
\* is abandoned: from then on, until the next attempt is started, no response
\* and no stream fragment changes the shared code, the design id or the
\* error.
C12_TimeoutAbandonsAttempt ==
  [][ /\ lastOp' = "generationTimeout"
           => /\ attempt \in timers45 /\ attempt \notin timers45'
              /\ generationError' = ClientTimeoutError
              /\ ~isGenerating'
      /\ (timedOut /\ lastOp' # "generateCode")
           => UNCHANGED <<storeCode, designId, storeDesignId, generationError>> ]_vars

\* C20: when the first message of the stream cannot be parsed, the client
\* gives the whole stream up in that same step: it stops reading, so that no
\* fragment of this stream reaches the shared code or the design id, and it
\* sends one single-response request in place of the stream.
C20_UnparsableStartFallsBack ==
  [][ (lastOp' = "readSplitLine" /\ Head(wire) = StartMsg)
        => /\ gpc' = "ns"
           /\ fetches' = Append(fetches, "json")
           /\ UNCHANGED <<storeCode, designId, storeDesignId>> ]_vars

\* C21: a sketch of more than 30 elements is sent first as a single-response
\* request, and the streaming request follows only when that attempt failed
\* (rejected fetch, status not ok, error in the body) or returned no code; a
\* sketch of 30 elements or fewer is sent as one streaming request only.
C21_ComplexSketchJsonFirst ==
  [][ /\ (lastOp' = "generateCode" /\ attempt' # attempt)
           => fetches' = << IF srvReq'.sketchLen > 30 THEN "json" ELSE "stream" >>
      /\ (lastOp' # "generateCode" /\ fetches' # fetches)
           => /\ srvReq.sketchLen > 30
              /\ fetches = <<"json">>
              /\ fetches' = <<"json", "stream">>
              /\ \/ lastOp' = "nonStreamingFetchFails"
                 \/ /\ lastOp' = "nonStreamingResponse"
                    /\ \/ jsonResp.status # 200
                       \/ jsonResp.error # Null
                       \/ ~Truthy(jsonResp.code) ]_vars

C21_Witness ==
  /\ lastOp = "nonStreamingResponse"
  /\ srvReq.sketchLen > 30
  /\ fetches = <<"json", "stream">>

\* C22: one invocation of generateCode sends at most two requests, one of
\* each mode, and an invocation that sent a request and has ended either
\* ended with complete code (the single response carried code, or the code
\* message marked isLast was processed, and the generating state is over) or
\* left a generationError for the user.
C22_TwoRequestsThenCodeOrError ==
  /\ fetches \in {<<>>, <<"json">>, <<"stream">>, <<"json", "stream">>}
  /\ (gpc = "idle" /\ attempt > 0)
       => \/ generationError # Null
          \/ /\ ~isGenerating
             /\ Truthy(storeCode)
             /\ (sawLast \/ fetches = <<"json">>)

\* C23 as stated: a terminal error of a generation still carries the design
\* token: every error return of sketchToCode has its designToken, a single
\* response with an error has a designToken, and in the stream every error
\* message comes after a token message
C23_ErrorCarriesToken ==
  /\ (aiCall # NoCall /\ aiCall.result.error # Null)
       => aiCall.result.designToken = AiToken
  /\ (jsonResp.status # 0 /\ jsonResp.error # Null) => jsonResp.designToken # Null
  /\ \A i \in 1..Len(streamed) :
       streamed[i].message = "error"
         => \E j \in 1..(i - 1) :
              streamed[j].message = "token" /\ streamed[j].designToken # Null

\* C23: every error return of sketchToCode (empty sketch, rate limit, empty
\* model output, both model calls failing) has its designToken; a single
\* response with an error has a designToken; in the stream an error of the
\* sketchToCode result comes right after the token of that result, and the
\* route's own timeout error comes after the token sent at the start of the
\* stream when the request carried a design id, and after no token message
\* when it carried none
C23_ErrorCarriesAnnouncedToken ==
  /\ (aiCall # NoCall /\ aiCall.result.error # Null)
       => aiCall.result.designToken = AiToken
  /\ (jsonResp.status # 0 /\ jsonResp.error # Null) => jsonResp.designToken # Null
  /\ \A i \in 1..Len(streamed) :
       streamed[i].message = "error"
         => IF streamed[i].error # ServerTimeoutError
            THEN i > 1 /\ streamed[i - 1] = TokenMsg(AiToken)
            ELSE IF srvReq.designId # Null
            THEN i > 1 /\ streamed[i - 1] = TokenMsg(srvReq.designId)
            ELSE \A j \in 1..(i - 1) : streamed[j].message # "token"

C23_Witness ==
  /\ lastOp = "aiReturns"
  /\ srvMode = "stream"
  /\ aiCall.result.error \in {RateLimitError, FallbackEmptyError, AllFailedError}
  /\ streamed[Len(streamed)] = ErrorMsg(aiCall.result.error)

\* C24: the store's setCode writes through at once.  In the step that calls
\* it (a single response with code, a stream chunk with a code message) the
\* store code is the given code, the most-recent-code key holds the same
\* value and so does the code key of the store's design id when one is set;
\* a null or empty value is stored as the empty text.  The step arms no
\* timer, sends no remote write and leaves the elements alone, and a chunk
\* that holds one code message only leaves the design id alone as well.
WroteThrough(c) ==
  /\ storeCode' = c
  /\ ls'.lastCode = c
  /\ storeDesignId' # Null => ls'.code[storeDesignId'] = c
  /\ UNCHANGED <<elements, storeElements, db, saveTimer, codeTimer, uscCalls>>

C24_SetCodeWritesThrough ==
  [][ /\ (/\ lastOp' = "nonStreamingResponse"
          /\ jsonResp.status = 200 /\ jsonResp.error = Null /\ Truthy(jsonResp.code))
           => WroteThrough(jsonResp.code)
      /\ (lastOp' = "readChunk" /\ gcode' # gcode)
           => /\ WroteThrough(gcode')
              /\ (Head(wire).message = "code" /\ Len(wire') = Len(wire) - 1)
                   => UNCHANGED <<designId, storeDesignId>>
      /\ \A c \in {NullText, EmptyText} :
           LET w == setCodeStorage(ls, storeDesignId, c)
           IN /\ w.lastCode = EmptyText
              /\ storeDesignId # Null => w.code[storeDesignId] = EmptyText ]_vars

C24_Witness ==
  /\ lastOp = "readChunk"
  /\ storeDesignId # Null
  /\ Truthy(gcode)
  /\ storeCode = gcode
  /\ ls.code[storeDesignId] = gcode
  /\ ls.lastCode = gcode
  /\ storeCode # OldCode


\* C30: when a generation ends in an error, the shared code and its mirror in
\* local storage are what they were before the generation began (stated for
\* the first generation of a page, which begins with the old code in both)
C30_ErrorLeavesCodeUntouched ==
  (gpc = "idle" /\ attempt = 1 /\ generationError # Null)
    => /\ storeCode = OldCode
       /\ ls.lastCode = OldCode
       /\ \A id \in DOMAIN ls.code : ls.code[id] \in {NullText, OldCode}

\* C31: when the stream held an error message, the generation error shown
\* once the stream has been read to its end carries the reason of that
\* message and is not the general reading failure
C31_StreamErrorReasonShown ==
  (lastOp = "readDone" /\ ~timedOut
     /\ \E i \in 1..Len(streamed) : streamed[i].message = "error")
    => generationError \notin {Null, StreamFailedError}

\* C32: when a generation that began on the stored design d1 (the page of
\* the signed-in user u1) has finished, the Canvas's and the store's design
\* id are still d1
C32_GenerationKeepsDesignId ==
  (gpc = "idle" /\ attempt > 0 /\ userId = "u1")
    => (designId = "d1" /\ storeDesignId = "d1")

C37_BusyWhileInFlight == gpc # "idle" => isGenerating

\* C38: every invocation of generateCode that has set isGenerating
\* eventually ends with isGenerating false and with complete code or an
\* error
C38_GenerationEnds ==
  isGenerating ~> (~isGenerating /\ (generationError # Null \/ codeComplete))

(***************************************************************************)
(* Properties of the persistence of a design (SpecSync)                    *)
(***************************************************************************)
\* C5: a realtime UPDATE that arrives while a save started by this client
\* is in flight (an element save, a code save of CodeEditor, or the store's
\* updateSupabaseCode) is dropped: elements and code stay as they were.
C5_UpdateDroppedWhileSaving ==
  [][ (lastOp' = "realtimeUpdate" /\ (isSaving \/ ceIsSaving \/ uscCalls # {})) =>
        /\ elements' = elements
        /\ storeElements' = storeElements
        /\ ceCode' = ceCode
        /\ storeCode' = storeCode ]_vars

\* C6: persistence is debounced: the drawing is saved, and a remote write
\* of the code is started, only when the auto-save timer fires, so no save
\* fires during a burst of edits and no intermediate value is written.
C6_SavesOnlyWhenTimerFires ==
  [][ /\ ls'.backup # ls.backup => lastOp' = "autoSave"
      /\ (\E c \in uscCalls' \ uscCalls : c.try = 1) => lastOp' = "codeAutoSave" ]_vars

\* C7: with a remote store that always fails, once the client is quiescent
\* after any sequence of element updates, the snapshot in local storage
\* equals the latest elements of that sequence.
C7_LocalSnapshotIsLatest ==
  (/\ remoteDown
   /\ lastEdit # NullElems
   /\ ~saveTimer /\ ~codeTimer /\ newSession = 0 /\ uscCalls = {})
  => ls.backup = lastEdit

\* C8: for a design whose id starts with local- no remote write is ever
\* attempted: no remote update is in flight for such an id.
C8_NoRemoteWriteForLocalId == \A c \in uscCalls : ~IsLocal(c.id)

\* C9: a design with a local- id stays local-only: no drawing change and
\* no automatic event replaces it with a remotely created Design (only an
\* explicit new session or a navigation could, and neither occurs here).
C9_LocalOnlyIsKept == [][ IsLocal(designId) => IsLocal(designId') ]_vars

\* C10: when a remote write fails, the failure is absorbed, the value is
\* kept locally, and the design is marked degraded, so that no further
\* remote write is attempted for it until a reconnect probe succeeds.
C10_FailureMarksDegraded ==
  [][ lastOp' = "updateFails" =>
        /\ storeCode' = storeCode
        /\ ls' = ls
        /\ supabaseError'
        /\ \A c \in uscCalls \ uscCalls' : \A d \in uscCalls' : d.id # c.id ]_vars

\* C11: the degraded flag supabaseError is cleared only by a reconnect probe
\* that succeeded: a step that takes the flag from set to clear is a step of
\* retrySupabaseConnection taken while the remote side answers; a probe
\* whose remote call reports an error, a re-run of the load effect and a
\* save leave the flag set.
C11_ClearedOnlyByGoodProbe ==
  [][ (supabaseError /\ ~supabaseError')
        => (lastOp' = "retrySupabaseConnection" /\ ~remoteDown) ]_vars

\* C14: a code update never changes or clears the drawing, and a drawing
\* update never changes or clears the code: a step of a code update (the
\* editor's change handler, the code auto-save, the remote answers of
\* updateSupabaseCode and the event the table publishes for the update)
\* leaves the shared elements and every row's excalidraw_data unchanged, and
\* a save of the elements leaves the shared code and every row's code
\* unchanged.
C14_CodeAndDrawingIndependent ==
  [][ /\ lastOp' \in {"handleEditorChange", "codeAutoSave", "updateSucceeds",
                      "updateFails", "codeUpdateEvent"}
           => /\ elements' = elements
              /\ storeElements' = storeElements
              /\ \A id \in RemoteIds : db'[id].data = db[id].data
      /\ lastOp' = "autoSave"
           => /\ storeCode' = storeCode
              /\ ceCode' = ceCode
              /\ \A id \in RemoteIds : db'[id].code = db[id].code ]_vars

\* C33: a remote UPDATE carrying code c that is delivered while the editor is
\* subscribed to the design and no local save is in flight makes the
\* editor's code c
C33_RemoteCodeIsShown ==
  [][ (/\ lastOp' = "realtimeUpdate"
       /\ Truthy(payloadCode')
       /\ ceUserId # Null
       /\ ceDesignId = designId
       /\ ~isSaving /\ ~ceIsSaving /\ uscCalls = {})
        => ceCode' = payloadCode' ]_vars

C13_LoadErrorIsNotAMiss ==
  [][ (lastOp' = "fetchData" /\ auth = "user" /\ url # Null /\ remoteDown)
        => /\ supabaseError'
           /\ designId' \notin (LocalIds \ {designId})
           /\ db' = db ]_vars

\* C15: exactly one design is active.  At a quiescent point of the page (no
\* effect due, no request in flight, nothing thrown) the design id of
\* Canvas, the design id of CodeEditor and the store's designId are the same,
\* and when that design is a row of the table the shared elements are its
\* drawing.
C15_OneActiveDesign ==
  ( /\ pending \subseteq {"createNewDesign"}
    /\ ~("createNewDesign" \in pending /\ auth = "user" /\ url = Null)
    /\ ~(url # Null /\ url # designId)
    /\ uscCalls = {}
    /\ ~uncaught )
  => /\ designId = ceDesignId
     /\ designId = storeDesignId
     /\ (designId \in RemoteIds /\ ~remoteDown /\ db[designId].exists)
          => elements = db[designId].data

\* C16: no localStorage operation raises.  While localStorage throws, no
\* exception leaves an effect uncaught, and the storage failure does not
\* become the error state of CodeEditor (which ends its load).
C16_StorageNeverRaises == ~uncaught /\ ceError # "storage"

\* C17: the load of CodeEditor resolves the design id from its sources in a
\* fixed priority: the id of the URL, else the stored design token, else the
\* design found for the stored drawing-session id.  When the URL has an id,
\* that id is the design id after the load and it has been written to the
\* design-token key, whichever tier the code was loaded from.
C17_ResolutionPriority ==
  [][ lastOp' = "ceFetchData"
        => /\ url # Null => (ceDesignId' = url /\ ls'.token = url)
           /\ (url = Null /\ ls.token # Null) => ceDesignId' = ls.token
           /\ (url = Null /\ ls.token = Null /\ ls.session # 0 /\ ~remoteDown)
                => \A d \in RemoteIds :
                     (db[d].exists /\ dbSession[d] = ls.session) => ceDesignId' = d ]_vars

\* C18: the resolution of the design id is idempotent.  For the URL id, the
\* localStorage and the table of any state, a second resolution that follows
\* a first one returns the same design id and leaves the design token as the
\* first one left it.
C18_ResolutionIdempotent ==
  LET first == resolveDesignId(url, ls)
      second == resolveDesignId(url, first.ls)
  IN /\ second.id = first.id
     /\ second.ls.token = first.ls.token

\* the load of CodeEditor has resolved the id twice, before the direct load
\* and after authentication, from the drawing session, and has kept it
C18_Witness ==
  /\ lastOp = "ceFetchData"
  /\ url = Null
  /\ ceUserId = "u1"
  /\ ceDesignId \in RemoteIds
  /\ ls.token = ceDesignId
  /\ ls.session # 0
  /\ dbSession[ceDesignId] = ls.session

\* C19: without an id in the URL and without a stored design token, when the
\* lookup by drawing-session id finds no row or fails, the resolution gives
\* no design id and writes no design token (and raises nothing).
C19_NoSourceResolvesToNull ==
  [][ ( /\ lastOp' = "ceFetchData"
        /\ url = Null
        /\ ls.token = Null
        /\ \/ remoteDown
           \/ ls.session = 0
           \/ \A d \in RemoteIds : ~(db[d].exists /\ dbSession[d] = ls.session) )
        => /\ ceDesignId' = Null
           /\ ls'.token = Null
           /\ ~uncaught' ]_vars

\* C25: once a navigation to another design id B has finished loading (no
\* load effect of Canvas is left to run and the design id is B), the shared
\* elements are B's: the drawing of B's row when the row can be read, and
\* otherwise an empty drawing or the local snapshot when that snapshot was
\* saved under B's session id; never the drawing of the design that was left.
C25_NavigationShowsTheNewDesign ==
  (/\ navFrom # Null
   /\ pending \cap {"canvasMount", "canvasFetch"} = {}
   /\ ~uncaught
   /\ designId = url)
    => IF selectById(url) = "row"
       THEN elements = db[url].data
       ELSE \/ elements = Shapes(0)
            \/ /\ elements = ls.backup
               /\ ls.session # 0
               /\ ls.session = dbSession[url]

\* C27: a signed-in user who opens the page without an id continues the most
\* recent design of the table (the rows are this user's): a row is inserted
\* during the load only when no row existed before, and when a row existed
\* the id the page goes on with is the one of an existing row.
C27_ContinuesMostRecentDesign ==
  [][ (\E d \in RemoteIds : db[d].exists)
        => /\ \A d \in RemoteIds : db'[d].exists = db[d].exists
           /\ (lastOp' = "createNewDesign" /\ ~remoteDown)
                => (url' # Null /\ db[url'].exists) ]_vars

\* C34: the code the editor's load reads from local storage for the design of
\* the URL is a value stored under that design's own keys, never the value
\* of a general key
C34_LocalCodePerDesign ==
  [][ (lastOp' = "ceFetchData" /\ url # Null /\ ~lsBroken /\ ~Truthy(storeCode))
        => LET read == getCodeFromLocalStorage(ls, url)
           IN Truthy(read) => read \in {ls.code[url], ls.final[url]} ]_vars

(***************************************************************************)
(* Properties of a visit without a design id (SpecVisit)                   *)
(***************************************************************************)
\* C26: one visit to the draw page without a design id inserts at most one
\* row into the designs table, however the automatic creation of the page
\* and the creation the Canvas starts on the first drawing change are
\* interleaved, and however many drawing changes follow.
C26_OneRowPerVisit == Cardinality({id \in RemoteIds : db[id].exists}) <= 1

\* C36: the answer of a load that loadDesignFromUrl sent for a design id that
\* is no longer the active one sets neither the elements nor the session id
C36_LateLoadIsDiscarded ==
  [][ lastOp' = "loadDesignFromUrlAnswered"
        => \A id \in urlLoads \ urlLoads' :
             id # designId => UNCHANGED <<elements, storeElements, sessionId>> ]_vars

(***************************************************************************)
(* Properties of the pure functions (SpecHint, SpecUuid)                   *)
(***************************************************************************)
\* C28 as stated: every rectangle gets exactly one hint, button when small,
\* card when large, input when wide but short, container otherwise
C28_ButtonWheneverSmall ==
  lastOp = "processElements" =>
    \A i \in 1..Len(drawn) :
      LET e == drawn[i]
          hint == processedElements[i].uiHint
          small == e.width < 200 /\ e.height < 100
          large == e.width > 200 /\ e.height > 200
          wideShort == e.width > 150 /\ e.height < 60
      IN e.type = "rectangle" =>
           /\ small => hint = "button"
           /\ large => hint = "card"
           /\ wideShort => hint = "input"
           /\ (~small /\ ~large /\ ~wideShort) => hint = "container"

\* C28: every rectangle gets exactly one hint: input when wide but short
\* (width > 150 and height < 60); otherwise button when small (width < 200 and
\* height < 100); card when large (width > 200 and height > 200); otherwise
\* container; a 60x30 rectangle gets button.  Two rectangles of the same
\* width and height get the same hint, the annotated list has the length and
\* the order of the drawing, each annotated element is the original with only
\* the hint added, and the drawing itself is left as it was.
C28_RectangleHintByGeometry ==
  lastOp = "processElements" =>
    /\ Len(processedElements) = Len(drawn)
    /\ \A i \in 1..Len(drawn) :
         LET e == drawn[i]
             p == processedElements[i]
         IN /\ [p EXCEPT !.uiHint = Null] = e
            /\ e.uiHint = Null
            /\ e.type = "rectangle" =>
                 /\ p.uiHint = IF e.width > 150 /\ e.height < 60 THEN "input"
                               ELSE IF e.width < 200 /\ e.height < 100 THEN "button"
                               ELSE IF e.width > 200 /\ e.height > 200 THEN "card"
                               ELSE "container"
                 /\ (e.width = 60 /\ e.height = 30) => p.uiHint = "button"
                 /\ \A j \in 1..Len(drawn) :
                      (drawn[j].type = "rectangle" /\ drawn[j].width = e.width
                         /\ drawn[j].height = e.height)
                        => processedElements[j].uiHint = p.uiHint

\* a 60x30 rectangle annotated button beside a 180x40 rectangle annotated input
C28_Witness ==
  /\ lastOp = "processElements"
  /\ Len(drawn) = 2
  /\ drawn[1] = Element("rectangle", 60, 30, 0, 0)
  /\ processedElements[1].uiHint = "button"
  /\ drawn[2] = Element("rectangle", 180, 59, 0, 0)
  /\ processedElements[2].uiHint = "input"

\* C29: every identifier generateUUID returns is 36 characters long, with a
\* hyphen at positions 8, 13, 18 and 23, the character 4 at position 14, one of
\* 8, 9, a, b at position 19, and a lowercase hexadecimal digit at every other
\* position (positions counted from 0)
C29_UuidFormat ==
  lastOp = "generateUUID" =>
    /\ Len(uuid) = 36
    /\ \A i \in 0..35 :
         LET c == uuid[i + 1]
         IN IF i \in {8, 13, 18, 23} THEN c = "-"
            ELSE IF i = 14 THEN c = "4"
            ELSE IF i = 19 THEN c \in {"8", "9", "a", "b"}
            ELSE \E k \in 1..16 : c = hexDigits[k]

\* an identifier made from random numbers whose digits at position 19 would
\* be f without the variant rule
C29_Witness ==
  /\ lastOp = "generateUUID"
  /\ Len(uuid) = 36
  /\ Random(randoms, 15) = 15
  /\ uuid[20] = "b"
  /\ uuid[1] = "f"

============================================================================
